------------------------- MODULE WorkflowCallStack -------------------------
(***************************************************************************)
(* Call stacks of workflow runs (packages/api/src/workflow): how the       *)
(* result of a called run reaches the run that called it, and how a called *)
(* run nothing waits on any more is cancelled.                             *)
(*                                                                         *)
(* A pass of a run may call others; their first passes run inside it.  It  *)
(* ends on waits for some of them.  Results are never handed over: after   *)
(* every pass, the worker that ran it reconciles the runs the pass leaves, *)
(* which reads the runs around them as stored, one query at a time, while  *)
(* other workers go on.                                                    *)
(*                                                                         *)
(* A worker is one thread of awaits of some process: an inbound event, an  *)
(* admin's request, a step calling a workflow, a recovery.  Claims are the *)
(* subject of WorkflowRunClaims; here a claim is the worker that holds it, *)
(* and it lapses once that worker has died.                                *)
(***************************************************************************)
EXTENDS Naturals, Sequences, FiniteSets

CONSTANTS
  Run,             \* the runs; each is of a workflow of its own
  Calls,           \* pairs <<p, c>>: run p has a step that calls run c; no
                   \* cycles, which assertCanCallWorkflow refuses
  Worker,
  None,
  Env,             \* what happens besides events, a subset of Disturbances
  MaxSuspensions   \* bound: suspensions of a run

\* "crash": a process dies during its passes.  "refuse": a step or the executor refuses what a
\* run is resumed with.  "hold": an event reaches a run it cannot resume.
\* "cancel": an admin cancels a run.  "late": a step given up on (timed out,
\* or its branch cancelled) goes on to call a workflow.  "close": the thread
\* is closed.  "delete": a workflow is deleted.  "read": reading a run back
\* fails, once its outcome is written.
Disturbances ==
  {"crash", "refuse", "hold", "cancel", "late", "close", "delete", "read"}

ASSUME CallsAssumption == Calls \subseteq Run \X Run
ASSUME NobodyAssumption == None \notin Run \cup Worker
ASSUME EnvAssumption == Env \subseteq Disturbances
ASSUME SuspensionsAssumption == MaxSuspensions \in Nat \ {0}

VARIABLES
  row,     \* the table of runs
  pc,      \* what each worker is doing
  job,     \* its local state
  closed   \* the thread of the runs was closed

vars == <<row, pc, job, closed>>

----------------------------------------------------------------------------
\* `idle` and `running` runs are "claimed".
Statuses == {"absent", "claimed", "suspended", "finished", "failed", "deleted"}

\* `caller` is `callerRunId`, which outlives the caller; `linked` tells
\* whether `parentRun` still names it.  `waits` are the called runs the
\* checkpoint waits on; `asks`: it also waits on an event or an admin.
Rows == [status: Statuses, claim: Worker \cup {None}, caller: Run \cup {None},
         linked: BOOLEAN, waits: SUBSET Run, asks: BOOLEAN, suspendedAt: Nat]

AbsentRow == [status |-> "absent", claim |-> None, caller |-> None,
              linked |-> FALSE, waits |-> {}, asks |-> FALSE, suspendedAt |-> 0]

\* A run to fail, as it was read; `again`: it may be read again.
Reads == [run: Run, status: Statuses, suspendedAt: Nat, again: BOOLEAN]

\* What a worker has in hand.
\*   run, suspendedAt: the run of its pass or reconcile, as it was read
\*   open: called runs its pass may end on waits for
\*   wait: the called run whose result its pass was resumed with
\*   for: the worker whose pass waits for what it does, a first pass
\*   first: the run that first pass left suspended
\*   queue: runs to reconcile
\*   look: waits an ended run is looked for in
\*   todo, walk: runs to fail, and runs whose children are to be failed
\*   target, mode: the run claimed to be failed, and why
\*   doomed: the run whose workflow is being deleted
Modes == {"abandon", "cancel", "refuse", "close"}
Jobs == [run: Run \cup {None}, suspendedAt: Nat, open: SUBSET Run,
         wait: Run \cup {None}, for: Worker \cup {None}, first: Run \cup {None},
         queue: Seq(Run \cup {None}), look: SUBSET Run, todo: SUBSET Reads,
         walk: SUBSET Run, target: Run \cup {None}, mode: Modes,
         doomed: Run \cup {None}]

NoJob == [run |-> None, suspendedAt |-> 0, open |-> {}, wait |-> None,
          for |-> None, first |-> None, queue |-> <<>>, look |-> {},
          todo |-> {}, walk |-> {}, target |-> None, mode |-> "abandon",
          doomed |-> None]

Steps == {"idle", "pass", "busy", "listed", "caller", "deliver", "failing",
          "deleting"}

\* The rows and the state of the workers have their types, and only `idle`
\* and `running` runs hold a claim.
TypeOK ==
  /\ row \in [Run -> Rows]
  /\ \A r \in Run : row[r].claim # None => row[r].status = "claimed"
  /\ pc \in [Worker -> Steps]
  /\ job \in [Worker -> Jobs]
  /\ closed \in BOOLEAN

Init ==
  /\ row = [r \in Run |-> AbsentRow]
  /\ pc = [w \in Worker |-> "idle"]
  /\ job = [w \in Worker |-> NoJob]
  /\ closed = FALSE

----------------------------------------------------------------------------
\* The table.

Ended(r) == row[r].status \in {"finished", "failed"}
Claimed(r) == row[r].status = "claimed"
Suspended(r) == row[r].status = "suspended"
Active(r) == Claimed(r) \/ Suspended(r)
Exists(r) == row[r].status \notin {"absent", "deleted"}

\* `parentRun`.
ParentOf(r) == IF row[r].linked THEN row[r].caller ELSE None
ChildrenOf(p) == {c \in Run : row[c].linked /\ row[c].caller = p}

Read(r, again) == [run |-> r, status |-> row[r].status,
                   suspendedAt |-> row[r].suspendedAt, again |-> again]
SuspendedChildren(p) ==
  {Read(c, FALSE) : c \in {d \in ChildrenOf(p) : Suspended(d)}}

\* The WHERE of `claimSuspended`: a run is claimed on the suspension it was
\* read on.
StillOn_AnySuspension(r, at) == Suspended(r)
StillOn(r, at) == Suspended(r) /\ row[r].suspendedAt = at

Write(r, x) == row' = [row EXCEPT ![r] = x]

Created(w, caller) ==
  [AbsentRow EXCEPT !.status = "claimed", !.claim = w, !.caller = caller,
                    !.linked = caller # None]
ClaimedBy(w, r) == [row[r] EXCEPT !.status = "claimed", !.claim = w]
Unheld(r) == [row[r] EXCEPT !.claim = None]
PutBack_KeepsClaim(r) == [row[r] EXCEPT !.status = "suspended"]
PutBack(r) == [row[r] EXCEPT !.status = "suspended", !.claim = None]
EndedAs(r, ended) ==
  [row[r] EXCEPT !.status = ended, !.claim = None, !.waits = {}, !.asks = FALSE]
SuspendedOn(r, waits, asks) ==
  [row[r] EXCEPT !.status = "suspended", !.claim = None, !.waits = waits,
                 !.asks = asks, !.suspendedAt = @ + 1]

\* A run may still deliver its result to its caller (isWaitedOnBy).
WaitedOnBy_OnlySuspended(c, p) == Suspended(p) /\ c \in row[p].waits
WaitedOnBy(c, p) ==
  \/ Suspended(p) /\ c \in row[p].waits
  \/ Claimed(p)

\* The runs to reconcile once a run ended (endedFollowUps), and once a pass
\* left it suspended (followUps).
EndedFollowUps_ParentOnly(r) == <<ParentOf(r)>>
EndedFollowUps(r) == <<r, ParentOf(r)>>
SuspendedFollowUps_None(r) == <<>>
SuspendedFollowUps(r) == <<r>>

----------------------------------------------------------------------------
\* Workers.

Goto(w, step) == pc' = [pc EXCEPT ![w] = step]
Set(w, j) == job' = [job EXCEPT ![w] = j]

\* The pass of run r, which may still wait on `open`.
Pass(r, open, for) ==
  [NoJob EXCEPT !.run = r, !.suspendedAt = row[r].suspendedAt, !.open = open,
                !.for = for]

\* What is left to a worker once its pass is over: the runs it leaves to
\* reconcile, after those its reconcile had left if the pass was part of one.
\* A first pass goes back to the step that called it once that is done.
AfterPass(w, followUps) ==
  [NoJob EXCEPT !.for = job[w].for, !.first = job[w].first,
                !.queue = job[w].queue \o followUps]

\* The steps a pass gave up on have nobody to go back to.
PassOver(w, j) ==
  job' = [v \in Worker |->
            IF v = w THEN j
            ELSE IF job[v].for = w
                   THEN [job[v] EXCEPT !.for = None, !.first = None]
                   ELSE job[v]]

\* Read a run to fail it (cancelRun, failUnresumable, prepareWorkflowDeletion).
ToFail(r, mode) == [NoJob EXCEPT !.mode = mode, !.todo = {Read(r, FALSE)}]

----------------------------------------------------------------------------
\* Passes.

Roots == {r \in Run : \A p \in Run : <<p, r>> \notin Calls}

\* An event starts a run (startNewRun).  The events of a closed thread are
\* those of another one.
StartRun(w, r) ==
  /\ pc[w] = "idle" /\ ~closed
  /\ r \in Roots /\ row[r].status = "absent"
  /\ Write(r, Created(w, None))
  /\ Goto(w, "pass")
  /\ Set(w, [NoJob EXCEPT !.run = r])
  /\ UNCHANGED closed

\* A step of the pass of worker w calls run c (callWorkflow), whose first
\* pass runs in worker v: the call returns once v is done.
Call(w, v, c) ==
  LET p == job[w].run IN
  /\ pc[w] = "pass" /\ pc[v] = "idle"
  /\ <<p, c>> \in Calls /\ row[c].status = "absent" /\ Exists(p)
  /\ Write(c, Created(v, p))
  /\ Goto(v, "pass")
  /\ Set(v, [NoJob EXCEPT !.run = c, !.for = w])
  /\ UNCHANGED closed

\* A step given up on calls run c: nothing reads what the call returns.  The
\* status of the caller is not checked.
LateCall(v, p, c) ==
  /\ "late" \in Env
  /\ pc[v] = "idle"
  /\ <<p, c>> \in Calls /\ row[c].status = "absent" /\ Exists(p)
  /\ Write(c, Created(v, p))
  /\ Goto(v, "pass")
  /\ Set(v, [NoJob EXCEPT !.run = c])
  /\ UNCHANGED closed

\* An event, or an admin, resolves a wait of a suspended run.
ResumeRun(w, r) ==
  /\ pc[w] = "idle"
  /\ Suspended(r) /\ row[r].asks
  /\ Write(r, ClaimedBy(w, r))
  /\ Goto(w, "pass") /\ Set(w, Pass(r, row[r].waits, None))
  /\ UNCHANGED closed

\* The pass of a run ends, and its outcome is written under its claim.
EndPass(w) ==
  LET r == job[w].run IN
  /\ pc[w] = "pass" /\ row[r].claim = w
  /\ Goto(w, "busy")
  /\ \/ \E ended \in {"finished", "failed"} :
          /\ Write(r, EndedAs(r, ended))
          /\ PassOver(w, AfterPass(w, EndedFollowUps(r)))
     \/ \E waits \in SUBSET job[w].open, asks \in BOOLEAN :
          /\ waits # {} \/ asks
          /\ row[r].suspendedAt < MaxSuspensions
          /\ Write(r, SuspendedOn(r, waits, asks))
          /\ PassOver(w, [AfterPass(w, SuspendedFollowUps(r))
                            EXCEPT !.first = IF job[w].for # None /\ job[w].suspendedAt = 0
                                             THEN r ELSE @])
  /\ UNCHANGED closed

\* The run was settled by somebody else while the pass ran (claim_lost).
LosePass(w) ==
  /\ pc[w] = "pass" /\ row[job[w].run].claim # w
  /\ Goto(w, "busy")
  /\ PassOver(w, AfterPass(w, <<>>))
  /\ UNCHANGED <<row, closed>>

\* The outcome of the pass is written, but reading the run back fails: the
\* pass throws.  Within a reconcile, the next run of its queue follows.
OutcomeNotReadBack(w) ==
  LET r == job[w].run IN
  /\ "read" \in Env
  /\ pc[w] = "pass" /\ row[r].claim = w
  /\ Goto(w, "busy")
  /\ PassOver(w, AfterPass(w, <<>>))
  /\ \/ \E ended \in {"finished", "failed"} : Write(r, EndedAs(r, ended))
     \/ \E waits \in SUBSET job[w].open, asks \in BOOLEAN :
          /\ waits # {} \/ asks
          /\ row[r].suspendedAt < MaxSuspensions
          /\ Write(r, SuspendedOn(r, waits, asks))
  /\ UNCHANGED closed

\* A step refuses what the run was resumed with: the run is put back.  If
\* that was the result of a called run, it is then failed (failRefusingRun).
RefuseResume(w) ==
  LET r == job[w].run IN
  /\ "refuse" \in Env
  /\ pc[w] = "pass" /\ row[r].claim = w /\ row[r].suspendedAt # 0
  /\ Write(r, PutBack(r))
  /\ Goto(w, "busy")
  /\ PassOver(w,
       IF job[w].wait = None
         THEN AfterPass(w, SuspendedFollowUps(r))
         ELSE [AfterPass(w, <<>>) EXCEPT
                 !.mode = "refuse",
                 !.todo = {[run |-> r, status |-> "suspended", again |-> FALSE,
                            suspendedAt |-> job[w].suspendedAt]}])
  /\ UNCHANGED closed

----------------------------------------------------------------------------
\* Failing suspended runs: cancelSuspended, failUnresumable, abortActiveRun.

\* A worker fails the runs it has in hand, one at a time, then lists the
\* suspended children of those it cancelled.
Failing(w) == job[w].todo # {} \/ job[w].walk # {}

\* The run changed since it was read.  A run of a closed thread is read
\* again, once.
Missed(w, s) ==
  LET read == IF s.again /\ Active(s.run) THEN {Read(s.run, FALSE)} ELSE {} IN
  /\ Goto(w, "busy")
  /\ Set(w, [job[w] EXCEPT !.todo = (@ \ {s}) \cup read])
  /\ UNCHANGED row

ClaimToFail(w, s) ==
  /\ pc[w] = "busy" /\ s \in job[w].todo /\ s.status = "suspended"
  /\ \/ /\ StillOn(s.run, s.suspendedAt)
        /\ Write(s.run, ClaimedBy(w, s.run))
        /\ Goto(w, "failing")
        /\ Set(w, [job[w] EXCEPT !.todo = @ \ {s}, !.target = s.run])
     \/ ~StillOn(s.run, s.suspendedAt) /\ Missed(w, s)
  /\ UNCHANGED closed

\* A claimed run of a closed thread is failed without its token.
TakeOver(w, s) ==
  /\ pc[w] = "busy" /\ s \in job[w].todo /\ s.status = "claimed"
  /\ \/ /\ Claimed(s.run)
        /\ Write(s.run, EndedAs(s.run, "failed"))
        /\ Goto(w, "busy")
        /\ Set(w, [job[w] EXCEPT !.todo = @ \ {s}])
     \/ ~Claimed(s.run) /\ Missed(w, s)
  /\ UNCHANGED closed

\* What follows: the descendants of a cancelled run are failed, and the runs
\* around one that ended outside of a pass are reconciled.
AfterFailing(j, r) ==
  CASE j.mode = "close"   -> j
    [] j.mode = "abandon" -> [j EXCEPT !.walk = @ \cup {r}]
    [] j.mode = "refuse"  -> [j EXCEPT !.queue = @ \o EndedFollowUps(r),
                                       !.mode = "abandon"]
    [] j.mode = "cancel"  -> [j EXCEPT !.queue = @ \o EndedFollowUps(r),
                                       !.walk = @ \cup {r}, !.mode = "abandon"]

SettleFailed(w) ==
  LET r == job[w].target
      j == [job[w] EXCEPT !.target = None] IN
  /\ pc[w] = "failing"
  /\ Goto(w, "busy")
  /\ \/ /\ row[r].claim = w
        /\ Write(r, EndedAs(r, "failed"))
        /\ Set(w, AfterFailing(j, r))
     \/ row[r].claim # w /\ Set(w, j) /\ UNCHANGED row
  /\ UNCHANGED closed

\* cancelSuspendedDescendants.
ListDescendants(w, r) ==
  /\ pc[w] = "busy" /\ r \in job[w].walk
  /\ Goto(w, "busy")
  /\ Set(w, [job[w] EXCEPT !.walk = @ \ {r}, !.todo = @ \cup SuspendedChildren(r)])
  /\ UNCHANGED <<row, closed>>

\* An admin cancels a run.
CancelRun(w, r) ==
  /\ "cancel" \in Env
  /\ pc[w] = "idle" /\ Suspended(r)
  /\ Goto(w, "busy") /\ Set(w, ToFail(r, "cancel"))
  /\ UNCHANGED <<row, closed>>

\* Resuming a run finds that it can never be resumed any more.
FailUnresumable(w, r) ==
  /\ "refuse" \in Env
  /\ pc[w] = "idle" /\ Suspended(r) /\ row[r].asks
  /\ Goto(w, "busy") /\ Set(w, ToFail(r, "refuse"))
  /\ UNCHANGED <<row, closed>>

----------------------------------------------------------------------------
\* reconcile.

\* The worker is done with a run, and may take the next one of its queue.
AtQueue(w) ==
  /\ pc[w] = "busy" /\ ~Failing(w)
  /\ job[w].look = {} /\ job[w].doomed = None

\* cancelAbandonedRuns lists the suspended children of a run before it reads
\* the run.
ListChildren(w) ==
  LET r == Head(job[w].queue)
      j == [job[w] EXCEPT !.queue = Tail(@), !.run = None, !.wait = None,
                          !.suspendedAt = 0, !.mode = "abandon"] IN
  /\ AtQueue(w) /\ job[w].queue # <<>>
  /\ \/ r = None /\ Goto(w, "busy") /\ Set(w, j)
     \/ /\ r # None
        /\ Goto(w, "listed")
        /\ Set(w, [j EXCEPT !.run = r, !.todo = SuspendedChildren(r)])
  /\ UNCHANGED <<row, closed>>

\* The children none of the waits names are cancelled, then an ended one is
\* looked for among the waits.
Unwaited(j, waits) ==
  [j EXCEPT !.look = waits, !.todo = {s \in @ : s.run \notin waits}]

\* A run in a pass, or deleted, is left alone, and so are its children.
ReadRun(w) ==
  LET r == job[w].run
      j == [job[w] EXCEPT !.suspendedAt = row[r].suspendedAt] IN
  /\ pc[w] = "listed"
  /\ \/ /\ Suspended(r) /\ row[r].caller # None
        /\ Goto(w, "caller") /\ Set(w, [j EXCEPT !.look = row[r].waits])
     \/ /\ Suspended(r) /\ row[r].caller = None
        /\ Goto(w, "busy") /\ Set(w, Unwaited(j, row[r].waits))
     \/ Ended(r) /\ Goto(w, "busy") /\ Set(w, Unwaited(j, {}))
     \/ /\ Claimed(r) \/ ~Exists(r)
        /\ Goto(w, "busy") /\ Set(w, [j EXCEPT !.todo = {}])
  /\ UNCHANGED <<row, closed>>

\* A suspended run its caller does not wait on is itself cancelled.
ReadCaller(w) ==
  LET r == job[w].run
      self == [run |-> r, status |-> "suspended", again |-> FALSE,
               suspendedAt |-> job[w].suspendedAt] IN
  /\ pc[w] = "caller"
  /\ Goto(w, "busy")
  /\ Set(w, IF WaitedOnBy(r, row[r].caller)
              THEN Unwaited(job[w], job[w].look)
              ELSE [job[w] EXCEPT !.look = {}, !.todo = {self}])
  /\ UNCHANGED <<row, closed>>

\* findEndedChild reads one called run: its result is delivered, or the next
\* wait is looked at.
LookAt(w, c) ==
  LET result == row[c].status = "deleted" \/ (Ended(c) /\ ParentOf(c) = job[w].run)
  IN
  /\ pc[w] = "busy" /\ ~Failing(w) /\ c \in job[w].look
  /\ \/ result /\ Goto(w, "deliver")
               /\ Set(w, [job[w] EXCEPT !.look = {}, !.wait = c])
     \/ ~result /\ Goto(w, "busy") /\ Set(w, [job[w] EXCEPT !.look = @ \ {c}])
  /\ UNCHANGED <<row, closed>>

\* deliver: the run is claimed on the suspension that was read, and resumed.
Deliver(w) ==
  LET r == job[w].run IN
  /\ pc[w] = "deliver"
  /\ \/ /\ StillOn(r, job[w].suspendedAt)
        /\ Write(r, ClaimedBy(w, r))
        /\ Goto(w, "pass")
        /\ Set(w, [job[w] EXCEPT !.open = row[r].waits \ {job[w].wait}])
     \/ /\ ~StillOn(r, job[w].suspendedAt)
        /\ Goto(w, "busy") /\ Set(w, [job[w] EXCEPT !.wait = None])
        /\ UNCHANGED row
  /\ UNCHANGED closed

\* The run cannot be resumed, or refuses the result before it is claimed.
RefuseResult(w) ==
  LET r == job[w].run IN
  /\ "refuse" \in Env
  /\ pc[w] = "deliver"
  /\ Goto(w, "busy")
  /\ Set(w, [job[w] EXCEPT !.mode = "refuse", !.wait = None,
               !.todo = {[run |-> r, status |-> "suspended", again |-> FALSE,
                          suspendedAt |-> job[w].suspendedAt]}])
  /\ UNCHANGED <<row, closed>>

\* An event reaches a run that has no wait it resolves, though it may wait on
\* an admin (holdEvent).
HoldEvent(w, r) ==
  /\ "hold" \in Env
  /\ pc[w] = "idle" /\ Suspended(r)
  /\ Goto(w, "busy") /\ Set(w, [NoJob EXCEPT !.queue = <<r>>])
  /\ UNCHANGED <<row, closed>>

\* The worker is done.  If it ran the first pass of a call, the call returns,
\* and the step waits on a run that was left suspended.
Return(w) ==
  LET v == job[w].for
      waits == job[w].first # None IN
  /\ AtQueue(w) /\ job[w].queue = <<>>
  /\ Goto(w, "idle")
  /\ job' = [u \in Worker |->
               CASE u = w -> NoJob
                 [] u = v /\ u # w /\ waits ->
                      [job[u] EXCEPT !.open = @ \cup {job[w].first}]
                 [] OTHER -> job[u]]
  /\ UNCHANGED <<row, closed>>

----------------------------------------------------------------------------
\* Processes that die, and the recovery of what they leave.

\* The workers of a call are of one process.
Together(S) ==
  \A v \in Worker : job[v].for # None => (v \in S <=> job[v].for \in S)

\* A process dies while its workers are all in passes: they are gone, and
\* their claims will lapse.  One that dies between the last write of a pass
\* and its reconcile is not modelled: nothing is left to recover, and the
\* runs are reconciled on their next event.
Crash(S) ==
  /\ "crash" \in Env
  /\ S # {} /\ Together(S)
  /\ \A w \in S : pc[w] = "pass"
  /\ row' = [r \in Run |-> IF row[r].claim \in S THEN Unheld(r) ELSE row[r]]
  /\ pc' = [w \in Worker |-> IF w \in S THEN "idle" ELSE pc[w]]
  /\ job' = [w \in Worker |-> IF w \in S THEN NoJob ELSE job[w]]
  /\ UNCHANGED closed

\* recoverRun: the run goes back on its suspension, and is then reconciled,
\* or cancelled once it was interrupted too often.
RecoverResume(w, r) ==
  /\ pc[w] = "idle"
  /\ Claimed(r) /\ row[r].claim = None /\ row[r].suspendedAt # 0
  /\ Write(r, PutBack(r))
  /\ Goto(w, "busy")
  /\ \/ Set(w, [NoJob EXCEPT !.queue = SuspendedFollowUps(r)])
     \/ Set(w, [NoJob EXCEPT !.mode = "cancel",
                  !.todo = {[run |-> r, status |-> "suspended", again |-> FALSE,
                             suspendedAt |-> row[r].suspendedAt]}])
  /\ UNCHANGED closed

\* failInterruptedRun: a run that never suspended is failed, then its
\* suspended descendants, and its caller is reconciled.
RecoverFirstPass(w, r) ==
  /\ pc[w] = "idle"
  /\ Claimed(r) /\ row[r].claim = None /\ row[r].suspendedAt = 0
  /\ Write(r, EndedAs(r, "failed"))
  /\ Goto(w, "busy")
  /\ Set(w, [NoJob EXCEPT !.walk = {r}, !.queue = <<ParentOf(r)>>])
  /\ UNCHANGED closed

----------------------------------------------------------------------------
\* A closed thread, a deleted workflow.

\* abortActiveRunsForThread lists the active runs of the thread, then fails
\* them one at a time.
CloseThread(w) ==
  /\ "close" \in Env /\ ~closed
  /\ pc[w] = "idle"
  /\ closed' = TRUE
  /\ Goto(w, "busy")
  /\ Set(w, [NoJob EXCEPT !.mode = "close",
               !.todo = {Read(r, TRUE) : r \in {q \in Run : Active(q)}}])
  /\ UNCHANGED row

\* Before the workflow of run r is deleted, prepareWorkflowDeletion lists the
\* suspended runs that run r called, and cancels them with their descendants.
PrepareDeletion(w, r) ==
  /\ "delete" \in Env
  /\ pc[w] = "idle" /\ row[r].status # "deleted"
  /\ Goto(w, "busy")
  /\ Set(w, [NoJob EXCEPT !.doomed = r, !.todo = SuspendedChildren(r)])
  /\ UNCHANGED <<row, closed>>

\* It then keeps the caller of run r, if it is active.
ListCallers(w) ==
  LET r == job[w].doomed IN
  /\ pc[w] = "busy" /\ ~Failing(w) /\ r # None
  /\ Goto(w, "deleting")
  /\ Set(w, [job[w] EXCEPT !.queue = IF Active(r) THEN <<ParentOf(r)>> ELSE <<>>])
  /\ UNCHANGED <<row, closed>>

\* The workflow is deleted with its run, whose callees lose their
\* `parentRun`; then its caller is reconciled (handleWorkflowDeleted).
DeleteRuns(w) ==
  LET r == job[w].doomed IN
  /\ pc[w] = "deleting"
  /\ row' = [c \in Run |->
               CASE c = r -> [AbsentRow EXCEPT !.status = "deleted", !.caller = row[r].caller]
                 [] c \in ChildrenOf(r) \ {r} -> [row[c] EXCEPT !.linked = FALSE]
                 [] OTHER -> row[c]]
  /\ Goto(w, "busy") /\ Set(w, [job[w] EXCEPT !.doomed = None])
  /\ UNCHANGED closed

----------------------------------------------------------------------------
\* What a worker with something in hand does next.
Continue(w) ==
  \/ EndPass(w) \/ LosePass(w) \/ OutcomeNotReadBack(w) \/ RefuseResume(w)
  \/ \E s \in job[w].todo : ClaimToFail(w, s) \/ TakeOver(w, s)
  \/ SettleFailed(w)
  \/ \E r \in job[w].walk : ListDescendants(w, r)
  \/ ListChildren(w) \/ ReadRun(w) \/ ReadCaller(w)
  \/ \E c \in job[w].look : LookAt(w, c)
  \/ Deliver(w) \/ RefuseResult(w)
  \/ ListCallers(w) \/ DeleteRuns(w)
  \/ Return(w)

Next ==
  \/ \E w \in Worker :
       \/ Continue(w)
       \/ CloseThread(w)
       \/ \E r \in Run :
            \/ StartRun(w, r) \/ ResumeRun(w, r) \/ HoldEvent(w, r)
            \/ CancelRun(w, r) \/ FailUnresumable(w, r)
            \/ RecoverResume(w, r) \/ RecoverFirstPass(w, r)
            \/ PrepareDeletion(w, r)
       \/ \E v \in Worker, c \in Run : Call(w, v, c)
       \/ \E p, c \in Run : LateCall(w, p, c)
  \/ \E S \in SUBSET Worker : Crash(S)

Spec == Init /\ [][Next]_vars

\* A worker goes on: queries are answered, and passes end.  No more events,
\* admins or recoveries are needed.
FairSpec == Spec /\ \A w \in Worker : WF_vars(Continue(w))

----------------------------------------------------------------------------
\* Properties.

\* Nobody has anything left to do: only events and admins are waited on.
Quiescent ==
  /\ \A w \in Worker : pc[w] = "idle"
  /\ \A r \in Run : ~Claimed(r)

\* No result is missed (reconcile, followUps): once nobody has anything left
\* to do, no suspended run still waits on a run that ended or was deleted,
\* however the run and its caller were resumed, put back or failed meanwhile.
NoMissedResult ==
  Quiescent =>
    \A p, c \in Run : Suspended(p) /\ c \in row[p].waits => Active(c)

\* No called run is left behind (cancelAbandonedRuns): once nobody has
\* anything left to do, every suspended run that was called is one its
\* caller, suspended too, waits on.
NoOrphanLeft ==
  Quiescent =>
    \A c \in Run : Suspended(c) /\ row[c].caller # None =>
      Suspended(row[c].caller) /\ c \in row[row[c].caller].waits

\* A caller may still take the result of run c: its checkpoint waits on it,
\* or the pass it is in called it and may end on a wait for it.
Wanted(c) ==
  LET p == row[c].caller
      w == row[p].claim IN
  /\ Active(p)
  /\ \/ c \in row[p].waits
     \/ w # None /\ c \in job[w].open
     \/ w # None /\ \E v \in Worker : job[v].for = w /\ job[v].first = c

\* Reconciling never cancels a called run its caller may still take the
\* result of, although both are read while they go on ("a run its next pass
\* calls is then never taken for one it no longer waits on").
WantedRunsKept ==
  [][\A w \in Worker : \A c \in Run :
       /\ pc[w] = "busy" /\ pc'[w] = "failing" /\ job'[w].target = c
       /\ job[w].mode = "abandon"
       /\ row[c].caller \notin {None, job[w].doomed}
       => ~Wanted(c)]_vars

\* A pass is resumed with the result of a called run only on a suspension
\* that waits on it, and only once it ended (deliver), although both were
\* read earlier: no result resumes a run twice.
DeliveredOnce ==
  \A w \in Worker :
    LET r == job[w].run
        c == job[w].wait IN
    pc[w] = "pass" /\ c # None /\ row[r].claim = w =>
      c \in row[r].waits /\ ~Active(c)

\* The runs of a closed thread are all failed: "the whole call stack is
\* cancelled here and no parent is resumed" (abortActiveRunsForThread).
ClosedThreadLeavesNothing ==
  closed /\ Quiescent => \A r \in Run : ~Suspended(r)

\* A result reaches the caller that waits on it without another event: if
\* workers go on, a run does not stay suspended on the result of one that
\* ended (reconcile, findEndedChild), whatever else resumes it meanwhile.
ResultsReachCallers ==
  \A p, c \in Run :
    (Suspended(p) /\ c \in row[p].waits /\ ~Active(c))
      ~> ~(Suspended(p) /\ c \in row[p].waits)
=============================================================================
