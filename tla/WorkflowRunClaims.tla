------------------------- MODULE WorkflowRunClaims -------------------------
(***************************************************************************)
(* The claim protocol of workflow runs (packages/api/src/workflow): which  *)
(* process may write a row of `workflow_runs`, and what it may write.      *)
(*                                                                         *)
(* A run is written by operations: its first pass, a resume, an operation  *)
(* that claims a suspended run only to fail it (an admin's cancel, a       *)
(* checkpoint that cannot be restored, recovery giving up), and the        *)
(* closing of its thread.  An operation reads the run, later claims the    *)
(* suspension it read under a token, works, and writes how the work ended  *)
(* only while the row still carries the token.  Each process renews the    *)
(* leases it holds and sweeps the table for claims that lapsed.  The       *)
(* database applies one UPDATE at a time; everything between two awaits of *)
(* the code is one action here.  An UPDATE is applied as it is sent,       *)
(* except where the code looked at leases that can change before it is     *)
(* applied: those a renewal covers, and those a sweep skips.               *)
(*                                                                         *)
(* Call stacks (reconcile, abandoned children) are not in this module:     *)
(* seen from one run they are more resumes and more cancellations, which   *)
(* any node may issue at any time here.                                    *)
(***************************************************************************)
EXTENDS Integers, FiniteSets

CONSTANTS
  Run,               \* ids of the runs
  Node,              \* API processes
  Op,                \* operations on runs; an operation is also the token
                     \* (claimId, a fresh UUID) of the claim it takes
  None,              \* SQL NULL, an unset field
  ClaimTtl,          \* WORKFLOW_RUN_CLAIM_TTL, in ticks of the clock
  MaxInterruptions,  \* interruptions in a row after which recovery gives up
  DistinctTimestamps,\* TRUE: a pass takes long enough for two suspensions of
                     \* a run never to carry the same `suspended_at`
  MaxTime,           \* bound: last tick of the clock
  MaxFaults          \* bound: crashes and failed queries

ASSUME NoneAssumption == None \notin Run \cup Node \cup Op
ASSUME TtlAssumption == ClaimTtl \in Nat \ {0}
ASSUME InterruptionsAssumption == MaxInterruptions \in Nat \ {0}
ASSUME TimestampsAssumption == DistinctTimestamps \in BOOLEAN
ASSUME BoundsAssumption == MaxTime \in Nat /\ MaxFaults \in Nat

VARIABLES
  row,           \* the table: columns of each run
  op,            \* what each operation read and where it runs
  pc,            \* how far each operation got
  lease,         \* WorkflowRunService.leases of each process
  renewal,       \* the renewal each process has in flight
  healthySince,  \* WorkflowRunRecoveryService.healthySince of each process
  sweep,         \* the sweep each process has in flight
  clock,
  faults,
  late           \* history, read by no guard: the leases held that were
                 \* handed over when their claim had already lapsed

vars ==
  <<row, op, pc, lease, renewal, healthySince, sweep, clock, faults, late>>

----------------------------------------------------------------------------
\* Statuses of a run; "absent" and "deleted" rows are not in the table.

ClaimedStatuses == {"idle", "running"}
ActiveStatuses == ClaimedStatuses \cup {"suspended"}
EndedStatuses == {"finished", "failed"}
Statuses == ActiveStatuses \cup EndedStatuses \cup {"absent", "deleted"}

\* `suspendedAt` and `checkpoint` are numbered: 0 is NULL, and each
\* suspension writes checkpoint number one higher than the one before it.
Rows == [status: Statuses, claimId: Op \cup {None}, claimExpiresAt: Nat,
         recoveryCount: Nat, suspendedAt: Nat, checkpoint: Nat]

AbsentRow == [status |-> "absent", claimId |-> None, claimExpiresAt |-> 0,
              recoveryCount |-> 0, suspendedAt |-> 0, checkpoint |-> 0]

Kinds == {"start", "resume", "cancel", "abort"}
Ops == [kind: Kinds \cup {None}, node: Node \cup {None},
        run: Run \cup {None}, status: Statuses, suspendedAt: Nat,
        checkpoint: Nat, retried: BOOLEAN]

FreeOp == [kind |-> None, node |-> None, run |-> None, status |-> "absent",
           suspendedAt |-> 0, checkpoint |-> 0, retried |-> FALSE]

\* Where an operation is.  "inserted" and "claimed": the claim is on the row
\* but the lease is not held yet.  "starting" and "running": a pass.
\* "failing": a claim taken only to fail the run.
InHand == {"starting", "running", "failing"}
Over == {"settled", "rejected", "claim_lost", "threw", "stopped"}
Steps == {"free", "loaded", "reload", "inserted", "claimed"} \cup InHand
           \cup Over

ExpiredClaims == [run: Run, claimId: Op, hasCheckpoint: BOOLEAN,
                  recoveryCount: Nat]
Renewals == [claims: SUBSET Op, expiresAt: Nat]
NoRenewal == [claims |-> {}, expiresAt |-> 0]
\* `sent` holds the claim, if any, whose UPDATE the sweep is waiting for.
Sweeps == [now: Nat, found: SUBSET ExpiredClaims, sent: SUBSET ExpiredClaims,
           giveUp: Run \cup {None}]
NoSweep == [now |-> 0, found |-> {}, sent |-> {}, giveUp |-> None]

\* healthySince is a time, or -1 for null.
Unhealthy == -1

TypeOK ==
  /\ row \in [Run -> Rows]
  /\ op \in [Op -> Ops]
  /\ pc \in [Op -> Steps]
  /\ lease \in [Node -> SUBSET Op]
  /\ renewal \in [Node -> Renewals]
  /\ healthySince \in [Node -> Nat \cup {Unhealthy}]
  /\ sweep \in [Node -> Sweeps]
  /\ clock \in Nat
  /\ faults \in Nat
  /\ late \in SUBSET Op

Init ==
  /\ row = [r \in Run |-> AbsentRow]
  /\ op = [o \in Op |-> FreeOp]
  /\ pc = [o \in Op |-> "free"]
  /\ lease = [n \in Node |-> {}]
  /\ renewal = [n \in Node |-> NoRenewal]
  /\ healthySince = [n \in Node |-> Unhealthy]
  /\ sweep = [n \in Node |-> NoSweep]
  /\ clock = 0
  /\ faults = 0
  /\ late = {}

----------------------------------------------------------------------------
\* The WHERE clauses and the written values of WorkflowRunRepository.

ClaimExpiry_Past == clock - ClaimTtl
ClaimExpiry == clock + ClaimTtl

\* WHERE of `claimSuspended`: the suspension that was loaded.
OnLoadedSuspension_StatusOnly(r, o) == row[r].status = "suspended"

OnLoadedSuspension(r, o) ==
  /\ row[r].status = "suspended"
  /\ row[r].suspendedAt = op[o].suspendedAt

\* WHERE of `settle` and `updateClaimed`: still held under the token.
HeldUnder_StatusOnly(r, o) == row[r].status \in ClaimedStatuses
HeldUnder_ById(r, o) == row[r].status \notin {"absent", "deleted"}

HeldUnder(r, o) ==
  /\ row[r].status \in ClaimedStatuses
  /\ row[r].claimId = o

\* WHERE of `recoverExpired`: held under the token, and still lapsed.
StillExpired_NoRecheck(r, o, now) ==
  row[r].status \in ClaimedStatuses /\ row[r].claimId = o

StillExpired(r, o, now) ==
  /\ row[r].status \in ClaimedStatuses
  /\ row[r].claimId = o
  /\ row[r].claimExpiresAt < now

\* The claim columns `claimSuspended` writes; it writes nothing else.
ClaimedRow(w, o) ==
  [w EXCEPT !.status = "running", !.claimId = o,
            !.claimExpiresAt = ClaimExpiry]

\* What ends a claim: `recoverExpired` clears the claim, `settle` also resets
\* the count of interruptions.
Unclaimed(w) == [w EXCEPT !.claimId = None, !.claimExpiresAt = 0]
Released_KeepsClaim(w) == [w EXCEPT !.recoveryCount = 0]
Released(w) == [Unclaimed(w) EXCEPT !.recoveryCount = 0]

\* suspendedValues: `suspended_at` is the wall clock in milliseconds.
NextSuspendedAt(w) ==
  IF DistinctTimestamps \/ w.suspendedAt = 0
    THEN {w.suspendedAt + 1}
    ELSE {w.suspendedAt, w.suspendedAt + 1}

SuspendedRow(w, at) ==
  [Released(w) EXCEPT !.status = "suspended", !.suspendedAt = at,
                      !.checkpoint = @ + 1]

\* finishedValues and failedValues clear the checkpoint.
EndedRow_KeepsCheckpoint(w, ended) == [Released(w) EXCEPT !.status = ended]

EndedRow(w, ended) ==
  [Released(w) EXCEPT !.status = ended, !.checkpoint = 0]

\* putBackValues: only the claim is undone.
PutBackRow(w) == [Released(w) EXCEPT !.status = "suspended"]

SettledRows(w, outcome) ==
  CASE outcome = "suspended" -> {SuspendedRow(w, at) : at \in NextSuspendedAt(w)}
    [] outcome = "rejected" -> {PutBackRow(w)}
    [] OTHER -> {EndedRow(w, outcome)}

\* putBackExpired and failExpired.
RecoveredRow_NeverFails(w, e) ==
  [Unclaimed(w) EXCEPT !.status = "suspended",
                       !.recoveryCount = e.recoveryCount + 1]

RecoveredRow(w, e) ==
  IF e.hasCheckpoint
    THEN [Unclaimed(w) EXCEPT !.status = "suspended",
                              !.recoveryCount = e.recoveryCount + 1]
    ELSE [Unclaimed(w) EXCEPT !.status = "failed", !.checkpoint = 0]

----------------------------------------------------------------------------
\* The work of one operation.

WriteRow(r, w) == row' = [row EXCEPT ![r] = w]
Goto(o, step) == pc' = [pc EXCEPT ![o] = step]
Hold(o) ==
  /\ lease' = [lease EXCEPT ![op[o].node] = @ \cup {o}]
  /\ late' = IF row[op[o].run].claimExpiresAt < clock
               THEN late \cup {o} ELSE late
EndLease(o) ==
  /\ lease' = [lease EXCEPT ![op[o].node] = @ \ {o}]
  /\ late' = late \ {o}
Fault == faults < MaxFaults /\ faults' = faults + 1

\* What an operation of a node keeps of the row it read.
Loaded(kind, n, r, again) ==
  [kind |-> kind, node |-> n, run |-> r, status |-> row[r].status,
   suspendedAt |-> row[r].suspendedAt, checkpoint |-> row[r].checkpoint,
   retried |-> again]

leaseVars == <<lease, late>>
recoveryVars == <<renewal, healthySince, sweep>>

\* createFromEvent: insert the run, already claimed.
CreateClaimed(o, n, r) ==
  /\ pc[o] = "free"
  /\ row[r].status = "absent"
  /\ WriteRow(r, [AbsentRow EXCEPT !.status = "idle", !.claimId = o,
                                   !.claimExpiresAt = ClaimExpiry])
  /\ op' = [op EXCEPT ![o] = Loaded("start", n, r, FALSE)]
  /\ Goto(o, "inserted")
  /\ UNCHANGED <<leaseVars, recoveryVars, clock, faults>>

\* The rows an operation is started on: every caller of claimResume,
\* cancelSuspended and failUnresumable found the run suspended, and
\* abortActiveRunsForThread lists the active runs of the thread.
LoadedBy(kind, r) ==
  \/ kind \in {"resume", "cancel"} /\ row[r].status = "suspended"
  \/ kind = "abort" /\ row[r].status \in ActiveStatuses

LoadRun(o, n, r, kind) ==
  /\ pc[o] = "free"
  /\ LoadedBy(kind, r)
  /\ op' = [op EXCEPT ![o] = Loaded(kind, n, r, FALSE)]
  /\ Goto(o, "loaded")
  /\ UNCHANGED <<row, leaseVars, recoveryVars, clock, faults>>

\* A run of a closed thread that changed since it was listed is tried again
\* once, from its new status.
Missed(o) ==
  Goto(o, IF op[o].kind = "abort" /\ ~op[o].retried THEN "reload"
                                                    ELSE "claim_lost")

ReloadActive(o) ==
  /\ pc[o] = "reload"
  /\ IF row[op[o].run].status \in ActiveStatuses
       THEN /\ op' = [op EXCEPT ![o] =
                        Loaded("abort", op[o].node, op[o].run, TRUE)]
            /\ Goto(o, "loaded")
       ELSE Goto(o, "claim_lost") /\ UNCHANGED op
  /\ UNCHANGED <<row, leaseVars, recoveryVars, clock, faults>>

TakesOver(o) == op[o].kind = "abort" /\ op[o].status \in ClaimedStatuses

\* WorkflowRunRepository.claimSuspended.
ClaimSuspended(o) ==
  LET r == op[o].run IN
  /\ pc[o] = "loaded"
  /\ ~TakesOver(o)
  /\ IF OnLoadedSuspension(r, o)
       THEN WriteRow(r, ClaimedRow(row[r], o)) /\ Goto(o, "claimed")
       ELSE Missed(o) /\ UNCHANGED row
  /\ UNCHANGED <<op, leaseVars, recoveryVars, clock, faults>>

\* abortActiveRun on a claimed run: failed whoever holds it, without a token.
TakeOver(o) ==
  LET r == op[o].run IN
  /\ pc[o] = "loaded"
  /\ TakesOver(o)
  /\ IF row[r].status \in ClaimedStatuses
       THEN WriteRow(r, EndedRow(row[r], "failed")) /\ Goto(o, "settled")
       ELSE Missed(o) /\ UNCHANGED row
  /\ UNCHANGED <<op, leaseVars, recoveryVars, clock, faults>>

\* The lease is held only once what follows the write is done: reading the
\* run back (afterWrite, createFromEvent).
HandOver(o) ==
  /\ pc[o] \in {"inserted", "claimed"}
  /\ pc[o] = "inserted" => row[op[o].run].status # "deleted"
  /\ Hold(o)
  /\ Goto(o, CASE op[o].kind = "start" -> "starting"
               [] op[o].kind = "resume" -> "running"
               [] OTHER -> "failing")
  /\ UNCHANGED <<row, op, recoveryVars, clock, faults>>

\* That read throws (or the inserted run is gone): the claim is left to lapse.
HandOverFails(o) ==
  /\ \/ pc[o] \in {"inserted", "claimed"} /\ Fault
     \/ /\ pc[o] = "inserted" /\ row[op[o].run].status = "deleted"
        /\ UNCHANGED faults
  /\ Goto(o, "threw")
  /\ UNCHANGED <<row, op, leaseVars, recoveryVars, clock>>

\* start: `lease.update(runningValues)`; a claim lost here ends the pass
\* before the runner runs.
MarkRunning(o) ==
  LET r == op[o].run IN
  /\ pc[o] = "starting"
  /\ IF HeldUnder(r, o)
       THEN /\ WriteRow(r, [row[r] EXCEPT !.status = "running"])
            /\ Goto(o, "running")
            /\ UNCHANGED leaseVars
       ELSE Goto(o, "claim_lost") /\ EndLease(o) /\ UNCHANGED row
  /\ UNCHANGED <<op, recoveryVars, clock, faults>>

\* How the work on a claimed run can end: a pass that never reached its
\* runner crashed, only a resume is refused by a step, and a claim taken to
\* fail the run fails it.
Outcomes(o) ==
  CASE pc[o] = "running" /\ op[o].kind = "resume" ->
         {"suspended", "finished", "failed", "rejected"}
    [] pc[o] = "running" -> {"suspended", "finished", "failed"}
    [] OTHER -> {"failed"}

\* runPass (persistResult, persistCrash, putBackValues), cancelSuspended and
\* failUnresumable: `lease.settle`, which ends the lease in any case.
Settle(o, outcome) ==
  LET r == op[o].run IN
  /\ pc[o] \in InHand
  /\ outcome \in Outcomes(o)
  /\ IF HeldUnder(r, o)
       THEN /\ \E w \in SettledRows(row[r], outcome) : WriteRow(r, w)
            /\ Goto(o, IF outcome = "rejected" THEN "rejected" ELSE "settled")
       ELSE Goto(o, "claim_lost") /\ UNCHANGED row
  /\ EndLease(o)
  /\ UNCHANGED <<op, recoveryVars, clock, faults>>

\* `lease.settle` throws: the write did not reach the database, or it did and
\* reading the run back failed.
SettleThrows(o, outcome) ==
  LET r == op[o].run IN
  /\ pc[o] \in InHand
  /\ outcome \in Outcomes(o)
  /\ \/ UNCHANGED row
     \/ /\ HeldUnder(r, o)
        /\ \E w \in SettledRows(row[r], outcome) : WriteRow(r, w)
  /\ Fault
  /\ Goto(o, "threw")
  /\ EndLease(o)
  /\ UNCHANGED <<op, recoveryVars, clock>>

----------------------------------------------------------------------------
\* WorkflowRunRecoveryService: one renewal and one sweep at a time per node.

opVars == <<op, pc, leaseVars>>

\* markHealthy, before and after.
HealthySinceNow(n) ==
  IF healthySince[n] = Unhealthy THEN clock ELSE healthySince[n]
MarkHealthy(n) == healthySince' = [healthySince EXCEPT ![n] = HealthySinceNow(n)]
MarkUnhealthy(n) == healthySince' = [healthySince EXCEPT ![n] = Unhealthy]

\* renewHeldClaims with no lease held runs no query, which counts as healthy.
RenewNothing(n) ==
  /\ lease[n] = {} /\ renewal[n] = NoRenewal
  /\ healthySince[n] = Unhealthy
  /\ MarkHealthy(n)
  /\ UNCHANGED <<row, opVars, renewal, sweep, clock, faults>>

\* The leases and the new expiry are read before the UPDATE is awaited.
RenewStart(n) ==
  /\ lease[n] # {} /\ renewal[n] = NoRenewal
  /\ renewal' = [renewal EXCEPT ![n] = [claims |-> lease[n],
                                        expiresAt |-> ClaimExpiry]]
  /\ UNCHANGED <<row, opVars, healthySince, sweep, clock, faults>>

\* renewClaims: neither the status nor the lapse is checked.
RenewWrite(n) ==
  /\ renewal[n] # NoRenewal
  /\ row' = [r \in Run |->
       IF row[r].claimId \in renewal[n].claims
         THEN [row[r] EXCEPT !.claimExpiresAt = renewal[n].expiresAt]
         ELSE row[r]]
  /\ renewal' = [renewal EXCEPT ![n] = NoRenewal]
  /\ MarkHealthy(n)
  /\ UNCHANGED <<opVars, sweep, clock, faults>>

RenewThrows(n) ==
  /\ renewal[n] # NoRenewal
  /\ renewal' = [renewal EXCEPT ![n] = NoRenewal]
  /\ MarkUnhealthy(n)
  /\ Fault
  /\ UNCHANGED <<row, opVars, sweep, clock>>

\* findExpiredClaims.
Expired(now) ==
  {[run |-> r, claimId |-> row[r].claimId,
    hasCheckpoint |-> row[r].checkpoint # 0,
    recoveryCount |-> row[r].recoveryCount] :
     r \in {q \in Run : /\ row[q].status \in ClaimedStatuses
                        /\ row[q].claimExpiresAt < now
                        /\ row[q].claimId # None}}

\* A node recovers runs only after a whole TTL of successful queries.
HealthyForTtl(n) == clock - HealthySinceNow(n) >= ClaimTtl

SweepFind(n) ==
  /\ sweep[n] = NoSweep
  /\ MarkHealthy(n)
  /\ sweep' = IF HealthyForTtl(n) /\ Expired(clock) # {}
                THEN [sweep EXCEPT ![n] = [now |-> clock, found |-> Expired(clock),
                                           sent |-> {}, giveUp |-> None]]
                ELSE sweep
  /\ UNCHANGED <<row, opVars, renewal, clock, faults>>

SweepThrows(n) ==
  /\ sweep[n] = NoSweep
  /\ MarkUnhealthy(n)
  /\ Fault
  /\ UNCHANGED <<row, opVars, renewal, sweep, clock>>

\* A sweep goes on without entry e, and cancels run r first if there is one.
Without(s, e, r) ==
  IF s.found = {e} /\ r = None THEN NoSweep
  ELSE [s EXCEPT !.found = @ \ {e}, !.sent = {}, !.giveUp = r]

SweepGoesOn(n, e, r) == sweep' = [sweep EXCEPT ![n] = Without(@, e, r)]

HoldsClaim_Never(n, o) == FALSE

\* holdsClaim: a pass of this process only could not renew its claim yet.
HoldsClaim(n, o) == o \in lease[n]

\* The sweep comes to entry e of its list.
ComesTo(n, e) ==
  /\ e \in sweep[n].found
  /\ sweep[n].sent = {} /\ sweep[n].giveUp = None

SkipHeld(n, e) ==
  /\ ComesTo(n, e)
  /\ HoldsClaim(n, e.claimId)
  /\ SweepGoesOn(n, e, None)
  /\ UNCHANGED <<row, opVars, renewal, healthySince, clock, faults>>

\* recoverRun is called, and waits for its UPDATE.
SendRecovery(n, e) ==
  /\ ComesTo(n, e)
  /\ ~HoldsClaim(n, e.claimId)
  /\ sweep' = [sweep EXCEPT ![n].sent = {e}]
  /\ UNCHANGED <<row, opVars, renewal, healthySince, clock, faults>>

\* The UPDATE of putBackExpired or failExpired, and what comes next: a run put
\* back on its wait too many times in a row is cancelled.
RecoverRun(n, e) ==
  /\ e \in sweep[n].sent
  /\ IF StillExpired(e.run, e.claimId, sweep[n].now)
       THEN /\ WriteRow(e.run, RecoveredRow(row[e.run], e))
            /\ SweepGoesOn(n, e,
                 IF e.hasCheckpoint /\ e.recoveryCount + 1 >= MaxInterruptions
                   THEN e.run ELSE None)
       ELSE SweepGoesOn(n, e, None) /\ UNCHANGED row
  /\ UNCHANGED <<opVars, renewal, healthySince, clock, faults>>

\* recoverRun throws, before or after its write applied: it is logged, and
\* the sweep goes on with the next run.
RecoverRunThrows(n, e) ==
  /\ e \in sweep[n].sent
  /\ \/ UNCHANGED row
     \/ /\ StillExpired(e.run, e.claimId, sweep[n].now)
        /\ WriteRow(e.run, RecoveredRow(row[e.run], e))
  /\ SweepGoesOn(n, e, None)
  /\ Fault
  /\ UNCHANGED <<opVars, renewal, healthySince, clock>>

\* recoverRun reads the run it put back (whatever became of it meanwhile) and
\* hands it to cancelRun.
GiveUp(n, o) ==
  LET r == sweep[n].giveUp IN
  /\ r # None
  /\ pc[o] = "free"
  /\ IF row[r].status = "deleted"
       THEN UNCHANGED <<op, pc>>
       ELSE /\ op' = [op EXCEPT ![o] = Loaded("cancel", n, r, FALSE)]
            /\ Goto(o, "loaded")
  /\ sweep' = [sweep EXCEPT ![n] = IF @.found = {} THEN NoSweep
                                     ELSE [@ EXCEPT !.giveUp = None]]
  /\ UNCHANGED <<row, leaseVars, renewal, healthySince, clock, faults>>

----------------------------------------------------------------------------
\* The environment.

\* A process dies and is started again: all its operations stop where they
\* are, and its leases, timers and health are those of a new process.
Crash(n) ==
  /\ Fault
  /\ pc' = [o \in Op |-> IF op[o].node = n /\ pc[o] \notin Over
                           THEN "stopped" ELSE pc[o]]
  /\ lease' = [lease EXCEPT ![n] = {}]
  /\ late' = late \ lease[n]
  /\ renewal' = [renewal EXCEPT ![n] = NoRenewal]
  /\ sweep' = [sweep EXCEPT ![n] = NoSweep]
  /\ MarkUnhealthy(n)
  /\ UNCHANGED <<row, op, clock>>

\* Deleting a workflow deletes its runs, whatever they are doing.
DeleteRun(r) ==
  /\ row[r].status \notin {"absent", "deleted"}
  /\ WriteRow(r, [AbsentRow EXCEPT !.status = "deleted"])
  /\ UNCHANGED <<opVars, recoveryVars, clock, faults>>

Tick ==
  /\ clock < MaxTime
  /\ clock' = clock + 1
  /\ UNCHANGED <<row, opVars, recoveryVars, faults>>

----------------------------------------------------------------------------

Operate(o) ==
  \/ \E n \in Node, r \in Run : CreateClaimed(o, n, r)
  \/ \E n \in Node, r \in Run, kind \in {"resume", "cancel", "abort"} :
       LoadRun(o, n, r, kind)
  \/ ReloadActive(o)
  \/ ClaimSuspended(o)
  \/ TakeOver(o)
  \/ HandOver(o)
  \/ HandOverFails(o)
  \/ MarkRunning(o)
  \/ \E outcome \in {"suspended", "finished", "failed", "rejected"} :
       Settle(o, outcome) \/ SettleThrows(o, outcome)

Recovery(n) ==
  \/ RenewNothing(n)
  \/ RenewStart(n)
  \/ RenewWrite(n)
  \/ RenewThrows(n)
  \/ SweepFind(n)
  \/ SweepThrows(n)
  \/ \E e \in sweep[n].found :
       \/ SkipHeld(n, e) \/ SendRecovery(n, e)
       \/ RecoverRun(n, e) \/ RecoverRunThrows(n, e)
  \/ \E o \in Op : GiveUp(n, o)

Next ==
  \/ \E o \in Op : Operate(o)
  \/ \E n \in Node : Recovery(n) \/ Crash(n)
  \/ \E r \in Run : DeleteRun(r)
  \/ Tick

Spec == Init /\ [][Next]_vars

----------------------------------------------------------------------------
\* Properties.

\* No run is ever active without a claim, and no other run has one: the
\* entity declares claim_id "set if and only if the run is in one of those
\* states".  Every write of a status has to keep the two columns together.
ActiveIffClaimed ==
  \A r \in Run : row[r].claimId # None <=> row[r].status \in ClaimedStatuses

\* A suspended run can always be resumed, and an ended one never: the
\* checkpoint survives a claim that is undone or recovered, a first pass that
\* died is never put back on a wait it does not have, and the end of a run
\* clears the checkpoint.
CheckpointIffResumable ==
  \A r \in Run :
    /\ row[r].status = "suspended" =>
         row[r].checkpoint # 0 /\ row[r].suspendedAt # 0
    /\ row[r].status \in EndedStatuses => row[r].checkpoint = 0

\* An operation whose claim was taken on a suspension, as opposed to a first
\* pass or a run taken over from its holder.
ClaimsSuspension(o) == op[o].kind # "start" /\ ~TakesOver(o)

\* Whoever claimed a suspended run works on the suspension it had read: a
\* handler holding a stale checkpoint cannot claim a run that another handler
\* resumed and suspended again in the meantime (claimSuspended).
ClaimedOnLoadedSuspension ==
  \A r \in Run : \A o \in Op :
    row[r].claimId = o /\ ClaimsSuspension(o) =>
      row[r].checkpoint = op[o].checkpoint

\* Two operations never both settle a run from the same suspension: an
\* approval decided twice, or a reply racing a cancel, goes on once.
OneOutcomePerSuspension ==
  \A o1, o2 \in Op :
    /\ o1 # o2 /\ op[o1].run = op[o2].run
    /\ pc[o1] = "settled" /\ pc[o2] = "settled"
    /\ ClaimsSuspension(o1) /\ ClaimsSuspension(o2)
    => op[o1].checkpoint # op[o2].checkpoint

\* A pass whose run was recovered, taken over, claimed again or deleted
\* meanwhile drops its outcome: what an operation writes as it ends, it writes
\* under its own claim and on the suspension it was claimed from.
OutcomesAreFenced ==
  [][\A o \in Op :
       LET r == op[o].run IN
       pc[o] \in InHand /\ pc'[o] # pc[o] /\ row'[r] # row[r] =>
         /\ row[r].claimId = o
         /\ ClaimsSuspension(o) => row[r].checkpoint = op[o].checkpoint]_vars

\* A run that finished or failed stays so, whatever passes, sweeps and
\* handlers are still going on around it.
EndedIsFinal ==
  [][\A r \in Run : row[r].status \in EndedStatuses =>
       row'[r] = row[r] \/ row'[r].status = "deleted"]_vars

\* Run r loses its claim to recovery in this step: no operation moves.
IsRecovered(r) ==
  /\ row[r].claimId # None /\ row'[r].claimId = None
  /\ row'[r].status # "deleted" /\ pc' = pc

\* A renewal that lands between the sweep's read and its write keeps the run
\* with its holder.
RenewedClaimsAreKept ==
  [][\A r \in Run : IsRecovered(r) => row[r].claimExpiresAt < clock]_vars

\* A process does not take a run away from a pass of its own, even one whose
\* claim lapsed because the database could not be reached, and even one that
\* got its lease after the sweep found its claim; only a pass that was handed
\* its lease when its claim had already lapsed can lose it that way.
OwnPassesAreKept ==
  [][\A r \in Run, n \in Node :
       /\ IsRecovered(r) /\ sweep'[n] # sweep[n]
       /\ row[r].claimId \in lease[n]
       => row[r].claimId \in late]_vars

\* The abstract specification: the owner of a run is the operation whose
\* token is on the row, and what it owns is the suspension it had read.
Phase(status) ==
  CASE status \in ClaimedStatuses -> "active"
    [] status \in EndedStatuses -> "ended"
    [] status = "deleted" -> "gone"
    [] OTHER -> status

OwnerOf(w, ops) ==
  IF w.claimId = None THEN {}
  ELSE {[op |-> w.claimId, suspension |-> ops[w.claimId].checkpoint]}

Ownership == INSTANCE RunOwnership WITH
  phase <- [r \in Run |-> Phase(row[r].status)],
  suspension <- [r \in Run |-> row[r].checkpoint],
  owner <- [r \in Run |-> OwnerOf(row[r], op)]

\* The tokens, the leases and the recovery implement exclusive ownership of a
\* run, one suspension at a time: whatever nodes crash, lapse or race, each
\* write of the table is a step its owner may take, or gives the run back.
ImplementsOwnership == Ownership!Spec

\* "A run interrupted 3 times in a row is cancelled instead of being put
\* back" (README of the module): it is never resumed again after that.
NotResumedOnceGivenUp ==
  [][\A r \in Run : \A o \in Op :
       /\ row[r].claimId = None /\ row'[r].claimId = o
       /\ op[o].kind = "resume"
       => row[r].recoveryCount < MaxInterruptions]_vars
=============================================================================
