---------------------- MODULE WorkflowRunClaims_proofs ----------------------
(***************************************************************************)
(* Theorems about WorkflowRunClaims, for any number of runs, nodes and     *)
(* operations, any TTL, and any number of crashes and failed queries.      *)
(***************************************************************************)
EXTENDS WorkflowRunClaims, TLAPS

----------------------------------------------------------------------------
\* What the written values are.

\* Every value a settlement or a recovery writes to a row is a row.
LEMMA WrittenRows ==
  ASSUME NEW w \in Rows
  PROVE  /\ Released(w) \in Rows
         /\ \A outcome \in {"suspended", "finished", "failed", "rejected"} :
              SettledRows(w, outcome) \subseteq Rows
         /\ \A e \in ExpiredClaims : RecoveredRow(w, e) \in Rows
<1>1. Released(w) \in Rows
  BY DEF Released, Unclaimed, Rows
<1>2. NextSuspendedAt(w) \subseteq Nat
  BY DEF NextSuspendedAt, Rows
<1>3. \A at \in Nat : SuspendedRow(w, at) \in Rows
  <2>1. \A x \in Rows, at, c \in Nat :
          [x EXCEPT !.status = "suspended", !.suspendedAt = at,
                    !.checkpoint = c] \in Rows
    BY DEF Rows, Statuses, ActiveStatuses
  <2>2. Released(w).checkpoint + 1 \in Nat
    BY <1>1 DEF Rows
  <2>3. QED BY <1>1, <2>1, <2>2 DEF SuspendedRow
<1>4. \A ended \in EndedStatuses : EndedRow(w, ended) \in Rows
  <2>1. \A x \in Rows : \A s \in Statuses :
          [x EXCEPT !.status = s, !.checkpoint = 0] \in Rows
    BY DEF Rows
  <2>2. QED BY <1>1, <2>1 DEF EndedRow, Statuses
<1>5. PutBackRow(w) \in Rows
  <2>1. \A x \in Rows, s \in Statuses : [x EXCEPT !.status = s] \in Rows
    BY DEF Rows
  <2>2. QED BY <1>1, <2>1 DEF PutBackRow, Statuses, ActiveStatuses
<1>6. ASSUME NEW outcome \in {"suspended", "finished", "failed", "rejected"}
      PROVE  SettledRows(w, outcome) \subseteq Rows
  <2>1. CASE outcome = "suspended"
    BY <2>1, <1>2, <1>3 DEF SettledRows
  <2>2. CASE outcome = "rejected"
    BY <2>2, <1>5 DEF SettledRows
  <2>3. CASE outcome \in {"finished", "failed"}
    BY <2>3, <1>4 DEF SettledRows, EndedStatuses
  <2>4. QED BY <1>6, <2>1, <2>2, <2>3
<1>7. ASSUME NEW e \in ExpiredClaims PROVE RecoveredRow(w, e) \in Rows
  <2>1. Unclaimed(w) \in Rows
    BY DEF Unclaimed, Rows
  <2>2. \A x \in Rows, s \in Statuses, c \in Nat :
          /\ [x EXCEPT !.status = s, !.recoveryCount = c] \in Rows
          /\ [x EXCEPT !.status = s, !.checkpoint = c] \in Rows
    BY DEF Rows
  <2>3. e.recoveryCount + 1 \in Nat
    BY DEF ExpiredClaims
  <2>4. QED
    BY <2>1, <2>2, <2>3
    DEF RecoveredRow, Statuses, ActiveStatuses, EndedStatuses
<1>8. QED BY <1>1, <1>6, <1>7

----------------------------------------------------------------------------
\* Types.

\* An operation has a node and a run once it was given something to do, and
\* only a run that exists is read before it is claimed.
OpsPlaced ==
  \A o \in Op :
    /\ IF pc[o] = "free"
         THEN op[o].node = None
         ELSE op[o].run \in Run /\ op[o].node \in Node
    /\ pc[o] \in {"loaded", "reload"} => op[o].kind # "start"

Typed == TypeOK /\ OpsPlaced

USE DEF WriteRow, Goto, Hold, EndLease, Fault, MarkHealthy, MarkUnhealthy,
        leaseVars, opVars, recoveryVars, ComesTo

LEMMA TypedInit == Init => Typed
  BY BoundsAssumption
  DEF Init, Typed, TypeOK, OpsPlaced, AbsentRow, Rows, FreeOp, Ops, Statuses,
      Steps, NoRenewal, Renewals, NoSweep, Sweeps, Unhealthy, Kinds

LEMMA LoadedOps ==
  ASSUME TypeOK, NEW kind \in Kinds, NEW n \in Node, NEW r \in Run,
         NEW again \in BOOLEAN
  PROVE  /\ Loaded(kind, n, r, again) \in Ops
         /\ Loaded(kind, n, r, again).kind = kind
         /\ Loaded(kind, n, r, again).node = n
         /\ Loaded(kind, n, r, again).run = r
  BY DEF TypeOK, Loaded, Rows, Ops

\* An operation that reads a run keeps the types, wherever it goes on from.
LEMMA OpLoaded ==
  ASSUME Typed, NEW o \in Op, NEW kind \in Kinds, NEW n \in Node, NEW r \in Run,
         NEW again \in BOOLEAN, NEW step \in {"inserted", "loaded"}, step = "loaded" => kind # "start",
         op' = [op EXCEPT ![o] = Loaded(kind, n, r, again)],
         Goto(o, step)
  PROVE  /\ op' \in [Op -> Ops]
         /\ pc' \in [Op -> Steps]
         /\ OpsPlaced'
  BY LoadedOps DEF Typed, TypeOK, OpsPlaced, Steps

\* So does an operation that goes on with the run it had read.
LEMMA OpMoved ==
  ASSUME Typed, NEW o \in Op, NEW step \in Steps \ {"free", "loaded"},
         pc[o] # "free", step = "reload" => pc[o] = "loaded",
         Goto(o, step), UNCHANGED op
  PROVE  /\ op' \in [Op -> Ops]
         /\ pc' \in [Op -> Steps]
         /\ OpsPlaced'
  BY DEF Typed, TypeOK, OpsPlaced

\* A write of one row keeps the table a table.
LEMMA RowWritten ==
  ASSUME TypeOK, NEW r \in Run, NEW w \in Rows, WriteRow(r, w)
  PROVE  row' \in [Run -> Rows]
  BY DEF TypeOK

LEMMA OperationTypes ==
  ASSUME Typed, NEW o \in Op, Operate(o)
  PROVE  Typed'
<1> USE DEF Typed, TypeOK, Steps, InHand, Over
<1>0. ClaimExpiry \in Nat
  BY TtlAssumption DEF ClaimExpiry
<1>1. ASSUME NEW n \in Node, NEW r \in Run, CreateClaimed(o, n, r)
      PROVE  Typed'
  <2>1. [AbsentRow EXCEPT !.status = "idle", !.claimId = o,
                          !.claimExpiresAt = ClaimExpiry] \in Rows
    BY <1>0 DEF AbsentRow, Rows, Statuses, ActiveStatuses, ClaimedStatuses
  <2>2. QED BY <1>1, <2>1, RowWritten, OpLoaded DEF CreateClaimed, Kinds
<1>2. ASSUME NEW n \in Node, NEW r \in Run,
             NEW kind \in {"resume", "cancel", "abort"}, LoadRun(o, n, r, kind)
      PROVE  Typed'
  BY <1>2, OpLoaded DEF LoadRun, Kinds
<1>3. ASSUME ReloadActive(o) PROVE Typed'
  <2>1. CASE op' = [op EXCEPT ![o] = Loaded("abort", op[o].node, op[o].run, TRUE)]
             /\ Goto(o, "loaded")
    BY <1>3, <2>1, OpLoaded DEF ReloadActive, OpsPlaced, Kinds
  <2>2. CASE UNCHANGED op /\ Goto(o, "claim_lost")
    BY <1>3, <2>2, OpMoved DEF ReloadActive
  <2>3. QED BY <1>3, <2>1, <2>2 DEF ReloadActive
<1>4. ASSUME pc[o] = "loaded", Missed(o), UNCHANGED op
      PROVE  pc' \in [Op -> Steps] /\ OpsPlaced'
  <2>1. CASE Goto(o, "reload")
    BY <1>4, <2>1, OpMoved
  <2>2. CASE Goto(o, "claim_lost")
    BY <1>4, <2>2, OpMoved
  <2>3. QED BY <1>4, <2>1, <2>2 DEF Missed
<1>5. ASSUME ClaimSuspended(o) PROVE Typed'
  <2>1. op[o].run \in Run /\ op' = op
    BY <1>5 DEF ClaimSuspended, OpsPlaced
  <2>2. CASE Missed(o) /\ UNCHANGED row
    BY <1>4, <1>5, <2>1, <2>2 DEF ClaimSuspended
  <2>3. CASE WriteRow(op[o].run, ClaimedRow(row[op[o].run], o)) /\ Goto(o, "claimed")
    <3>1. \A w \in Rows : ClaimedRow(w, o) \in Rows
      BY <1>0 DEF ClaimedRow, Rows, Statuses, ActiveStatuses, ClaimedStatuses
    <3>2. row' \in [Run -> Rows]
      BY <2>1, <2>3, <3>1, RowWritten
    <3>3. QED BY <1>5, <2>1, <2>3, <3>2, OpMoved DEF ClaimSuspended
  <2>4. QED BY <1>5, <2>2, <2>3 DEF ClaimSuspended
<1>6. ASSUME TakeOver(o) PROVE Typed'
  <2>1. op[o].run \in Run /\ op' = op
    BY <1>6 DEF TakeOver, OpsPlaced
  <2>2. CASE Missed(o) /\ UNCHANGED row
    BY <1>4, <1>6, <2>1, <2>2 DEF TakeOver
  <2>3. CASE WriteRow(op[o].run, EndedRow(row[op[o].run], "failed")) /\ Goto(o, "settled")
    <3>1. EndedRow(row[op[o].run], "failed") \in Rows
      BY <2>1, WrittenRows DEF SettledRows
    <3>2. row' \in [Run -> Rows]
      BY <2>1, <2>3, <3>1, RowWritten
    <3>3. QED BY <1>6, <2>1, <2>3, <3>2, OpMoved DEF TakeOver
  <2>4. QED BY <1>6, <2>2, <2>3 DEF TakeOver
<1>7. ASSUME HandOver(o) PROVE Typed'
  <2>1. /\ op[o].node \in Node
        /\ lease' \in [Node -> SUBSET Op]
    BY <1>7 DEF HandOver, OpsPlaced
  <2>2. QED BY <1>7, <2>1, OpMoved DEF HandOver
<1>8. ASSUME HandOverFails(o) PROVE Typed'
  <2>1. pc' \in [Op -> Steps] /\ OpsPlaced'
    BY <1>8, OpMoved DEF HandOverFails
  <2>2. faults' \in Nat
    BY <1>8 DEF HandOverFails
  <2>3. QED BY <1>8, <2>1, <2>2 DEF HandOverFails
<1>9. ASSUME EndLease(o) PROVE lease' \in [Node -> SUBSET Op]
  BY <1>9
<1>10. ASSUME MarkRunning(o) PROVE Typed'
  <2>1. op[o].run \in Run /\ op' = op
    BY <1>10 DEF MarkRunning, OpsPlaced
  <2>2. \A w \in Rows : [w EXCEPT !.status = "running"] \in Rows
    BY DEF Rows, Statuses, ActiveStatuses, ClaimedStatuses
  <2>3. row' \in [Run -> Rows]
    BY <1>10, <2>1, <2>2, RowWritten DEF MarkRunning
  <2>4. pc' \in [Op -> Steps] /\ OpsPlaced'
    BY <1>10, OpMoved DEF MarkRunning
  <2>5. QED BY <1>9, <1>10, <2>1, <2>3, <2>4 DEF MarkRunning
<1>11. \A outcome \in {"suspended", "finished", "failed", "rejected"} :
         \A r \in Run : SettledRows(row[r], outcome) \subseteq Rows
  BY WrittenRows
<1>12. ASSUME NEW outcome \in {"suspended", "finished", "failed", "rejected"},
              Settle(o, outcome)
       PROVE  Typed'
  <2>1. op[o].run \in Run /\ op' = op
    BY <1>12 DEF Settle, OpsPlaced
  <2>2. row' \in [Run -> Rows]
    BY <1>11, <1>12, <2>1, RowWritten DEF Settle
  <2>3. pc' \in [Op -> Steps] /\ OpsPlaced'
    BY <1>12, OpMoved DEF Settle
  <2>4. QED BY <1>9, <1>12, <2>1, <2>2, <2>3 DEF Settle
<1>13. ASSUME NEW outcome \in {"suspended", "finished", "failed", "rejected"},
              SettleThrows(o, outcome)
       PROVE  Typed'
  <2>1. op[o].run \in Run /\ op' = op
    BY <1>13 DEF SettleThrows, OpsPlaced
  <2>2. row' \in [Run -> Rows]
    BY <1>11, <1>13, <2>1, RowWritten DEF SettleThrows
  <2>3. pc' \in [Op -> Steps] /\ OpsPlaced'
    BY <1>13, OpMoved DEF SettleThrows
  <2>4. QED BY <1>9, <1>13, <2>1, <2>2, <2>3 DEF SettleThrows
<1>14. QED
  BY <1>1, <1>2, <1>3, <1>5, <1>6, <1>7, <1>8, <1>10, <1>12, <1>13 DEF Operate

LEMMA RecoveryTypes ==
  ASSUME Typed, NEW n \in Node, Recovery(n)
  PROVE  Typed'
<1> USE DEF Typed, TypeOK
<1>0. ClaimExpiry \in Nat /\ HealthySinceNow(n) \in Nat \cup {Unhealthy}
  BY TtlAssumption DEF ClaimExpiry, HealthySinceNow
<1>1. CASE RenewNothing(n)
  BY <1>0, <1>1 DEF RenewNothing, OpsPlaced
<1>2. CASE RenewStart(n)
  <2>1. [claims |-> lease[n], expiresAt |-> ClaimExpiry] \in Renewals
    BY <1>0 DEF Renewals
  <2>2. QED BY <1>2, <2>1 DEF RenewStart, OpsPlaced
<1>3. NoRenewal \in Renewals /\ NoSweep \in Sweeps
  BY DEF NoRenewal, Renewals, NoSweep, Sweeps
<1>4. CASE RenewWrite(n)
  <2>1. \A w \in Rows, t \in Nat : [w EXCEPT !.claimExpiresAt = t] \in Rows
    BY DEF Rows
  <2>2. renewal[n].expiresAt \in Nat
    BY DEF Renewals
  <2>3. row' \in [Run -> Rows]
    BY <1>4, <2>1, <2>2 DEF RenewWrite
  <2>4. QED BY <1>0, <1>3, <1>4, <2>3 DEF RenewWrite, OpsPlaced
<1>5. CASE RenewThrows(n)
  BY <1>3, <1>5 DEF RenewThrows, OpsPlaced
<1>6. CASE SweepFind(n)
  <2>1. Expired(clock) \subseteq ExpiredClaims
    <3>1. \A r \in Run : /\ row[r].claimId \in Op \cup {None}
                        /\ row[r].recoveryCount \in Nat
      BY DEF Rows
    <3>2. \A r \in Run : row[r].claimId # None =>
            [run |-> r, claimId |-> row[r].claimId,
             hasCheckpoint |-> row[r].checkpoint # 0,
             recoveryCount |-> row[r].recoveryCount] \in ExpiredClaims
      BY <3>1 DEF ExpiredClaims
    <3>3. QED BY <3>2 DEF Expired
  <2>2. [now |-> clock, found |-> Expired(clock), sent |-> {},
         giveUp |-> None] \in Sweeps
    BY <2>1 DEF Sweeps
  <2>3. sweep' \in [Node -> Sweeps]
    BY <1>6, <2>2 DEF SweepFind
  <2>4. QED BY <1>0, <1>6, <2>3 DEF SweepFind, OpsPlaced
<1>7. CASE SweepThrows(n)
  BY <1>7 DEF SweepThrows, OpsPlaced
<1>8. ASSUME NEW e \in sweep[n].found, NEW r \in Run \cup {None},
             SweepGoesOn(n, e, r)
      PROVE  sweep' \in [Node -> Sweeps]
  <2>1. \A s \in Sweeps :
          [s EXCEPT !.found = s.found \ {e}, !.sent = {}, !.giveUp = r] \in Sweeps
    BY DEF Sweeps
  <2>2. Without(sweep[n], e, r) \in Sweeps
    BY <1>3, <2>1 DEF Without
  <2>3. QED BY <1>8, <2>2 DEF SweepGoesOn
<1>9. \A e \in sweep[n].found : /\ e.run \in Run
                                /\ RecoveredRow(row[e.run], e) \in Rows
  <2>1. sweep[n].found \subseteq ExpiredClaims
    BY DEF Sweeps
  <2>2. \A e \in ExpiredClaims : e.run \in Run
    BY DEF ExpiredClaims
  <2>3. QED BY <2>1, <2>2, WrittenRows
<1>10. ASSUME NEW e \in sweep[n].found, SkipHeld(n, e) PROVE Typed'
  BY <1>8, <1>10 DEF SkipHeld, OpsPlaced
<1>15. ASSUME NEW e \in sweep[n].found, SendRecovery(n, e) PROVE Typed'
  <2>1. \A s \in Sweeps : \A x \in s.found : [s EXCEPT !.sent = {x}] \in Sweeps
    BY DEF Sweeps
  <2>2. sweep' \in [Node -> Sweeps]
    BY <1>15, <2>1 DEF SendRecovery
  <2>3. QED BY <1>15, <2>2 DEF SendRecovery, OpsPlaced
<1>11. ASSUME NEW e \in sweep[n].found, RecoverRun(n, e) PROVE Typed'
  <2>1. sweep' \in [Node -> Sweeps]
    BY <1>8, <1>9, <1>11 DEF RecoverRun
  <2>2. row' \in [Run -> Rows]
    BY <1>9, <1>11, RowWritten DEF RecoverRun
  <2>3. QED BY <1>11, <2>1, <2>2 DEF RecoverRun, OpsPlaced
<1>12. ASSUME NEW e \in sweep[n].found, RecoverRunThrows(n, e) PROVE Typed'
  <2>1. sweep' \in [Node -> Sweeps]
    BY <1>8, <1>12 DEF RecoverRunThrows
  <2>2. row' \in [Run -> Rows]
    BY <1>9, <1>12, RowWritten DEF RecoverRunThrows
  <2>3. QED BY <1>12, <2>1, <2>2 DEF RecoverRunThrows, OpsPlaced
<1>13. ASSUME NEW o \in Op, GiveUp(n, o) PROVE Typed'
  <2>1. sweep[n].giveUp \in Run
    BY <1>13 DEF GiveUp, Sweeps
  <2>2. sweep' \in [Node -> Sweeps]
    <3>1. \A s \in Sweeps : [s EXCEPT !.giveUp = None] \in Sweeps
      BY DEF Sweeps
    <3>2. QED BY <1>3, <1>13, <3>1 DEF GiveUp
  <2>3. /\ op' \in [Op -> Ops]
        /\ pc' \in [Op -> Steps]
        /\ OpsPlaced'
    <3>1. CASE UNCHANGED <<op, pc>>
      BY <3>1 DEF OpsPlaced
    <3>2. CASE /\ op' = [op EXCEPT ![o] = Loaded("cancel", n, sweep[n].giveUp, FALSE)]
               /\ Goto(o, "loaded")
      BY <2>1, <3>2, OpLoaded DEF Kinds, Steps
    <3>3. QED BY <1>13, <3>1, <3>2 DEF GiveUp
  <2>4. QED BY <1>13, <2>2, <2>3 DEF GiveUp
<1>14. QED
  BY <1>1, <1>2, <1>4, <1>5, <1>6, <1>7, <1>10, <1>11, <1>12, <1>13, <1>15
  DEF Recovery

LEMMA TypedNext == Typed /\ [Next]_vars => Typed'
<1> SUFFICES ASSUME Typed, [Next]_vars PROVE Typed'
  OBVIOUS
<1>1. ASSUME NEW o \in Op, Operate(o) PROVE Typed'
  BY <1>1, OperationTypes
<1>2. ASSUME NEW n \in Node, Recovery(n) PROVE Typed'
  BY <1>2, RecoveryTypes
<1>3. ASSUME NEW n \in Node, Crash(n) PROVE Typed'
  <2> USE DEF Typed, TypeOK
  <2>1. NoRenewal \in Renewals /\ NoSweep \in Sweeps
    BY DEF NoRenewal, Renewals, NoSweep, Sweeps
  <2>2. pc' \in [Op -> Steps]
    BY <1>3 DEF Crash, Steps, Over
  <2>3. \A o \in Op : pc'[o] = "free" <=> pc[o] = "free"
    BY <1>3, NoneAssumption DEF Crash, OpsPlaced
  <2>4. OpsPlaced'
    BY <1>3, <2>3 DEF Crash, OpsPlaced
  <2>5. QED BY <1>3, <2>1, <2>2, <2>4 DEF Crash
<1>4. ASSUME NEW r \in Run, DeleteRun(r) PROVE Typed'
  <2>1. [AbsentRow EXCEPT !.status = "deleted"] \in Rows
    BY DEF AbsentRow, Rows, Statuses
  <2>2. QED BY <1>4, <2>1, RowWritten DEF DeleteRun, Typed, TypeOK, OpsPlaced
<1>5. CASE Tick
  BY <1>5 DEF Tick, Typed, TypeOK, OpsPlaced
<1>6. CASE UNCHANGED vars
  BY <1>6 DEF vars, Typed, TypeOK, OpsPlaced
<1>7. QED BY <1>1, <1>2, <1>3, <1>4, <1>5, <1>6 DEF Next

\* The state of the claims keeps its shape: no step of an operation, of the
\* recovery or of the environment writes a column, a lease or a sweep a value
\* the code never gives it.
THEOREM TypeCorrect == Spec => []TypeOK
<1>1. Spec => []Typed
  BY TypedInit, TypedNext, PTL DEF Spec
<1>2. QED BY <1>1, PTL DEF Typed

----------------------------------------------------------------------------
\* The inductive invariant.

\* Where an operation may be while its token is on a row.
Claimants == {"inserted", "claimed", "threw", "stopped"} \cup InHand
NotYetClaimant == {"free", "loaded", "reload"}
OutOfPlay == EndedStatuses \cup {"deleted"}

RowsCoherent ==
  /\ ActiveIffClaimed
  /\ CheckpointIffResumable
  /\ \A r \in Run :
       /\ row[r].status \in {"absent", "deleted"} => row[r].checkpoint = 0
       /\ row[r].status = "absent" => row[r].suspendedAt = 0

\* The token on a row is that of an operation at work on it (or gone), which
\* owns the suspension the row is on; a first pass owns none.
ClaimsHeld ==
  \A r \in Run, o \in Op : row[r].claimId = o =>
    /\ op[o].run = r
    /\ pc[o] \in Claimants
    /\ ~TakesOver(o)
    /\ op[o].kind = "start" <=> row[r].checkpoint = 0
    /\ op[o].kind # "start" => row[r].suspendedAt # 0
    /\ DistinctTimestamps => row[r].checkpoint = op[o].checkpoint

\* What a sweep read of a claim stays true for as long as the claim lasts.
SweepsFresh ==
  \A n \in Node :
    /\ sweep[n].now <= clock
    /\ \A e \in sweep[n].found :
         /\ pc[e.claimId] \notin NotYetClaimant
         /\ row[e.run].claimId = e.claimId =>
              (e.hasCheckpoint <=> row[e.run].checkpoint # 0)

\* Timestamps that differ number the suspensions as the checkpoints do.
Numbered ==
  DistinctTimestamps =>
    /\ \A r \in Run : row[r].status \in ActiveStatuses =>
         row[r].suspendedAt = row[r].checkpoint
    /\ \A o \in Op : pc[o] = "loaded" =>
         \/ op[o].suspendedAt = op[o].checkpoint
         \/ row[op[o].run].status \in OutOfPlay

\* A suspension that was settled is behind the run.
SettledPast ==
  DistinctTimestamps =>
    \A o \in Op : pc[o] = "settled" /\ ClaimsSuspension(o) =>
      \/ row[op[o].run].status \in OutOfPlay
      \/ row[op[o].run].checkpoint > op[o].checkpoint

OneOutcome == DistinctTimestamps => OneOutcomePerSuspension

IInv == /\ RowsCoherent
        /\ ClaimsHeld
        /\ SweepsFresh
        /\ Numbered
        /\ SettledPast
        /\ OneOutcome

\* The columns ownership is about did not change, except that a claimed run
\* may have gone from idle to running.
SameColumns(w, x) ==
  /\ x.claimId = w.claimId
  /\ x.suspendedAt = w.suspendedAt
  /\ x.checkpoint = w.checkpoint
  /\ x.status = w.status \/ {x.status, w.status} \subseteq ClaimedStatuses

\* A claimed run w was let go of as x: it goes on to its next suspension,
\* back to the one it was claimed from, or ends.
Moved(w, x) ==
  /\ w.status \in ClaimedStatuses
  /\ x.claimId = None
  /\ \/ /\ x.status = "suspended"
        /\ x.checkpoint = w.checkpoint + 1
        /\ x.suspendedAt \in {w.suspendedAt, w.suspendedAt + 1}
        /\ x.suspendedAt # 0
        /\ DistinctTimestamps => x.suspendedAt = w.suspendedAt + 1
     \/ x.status \in EndedStatuses /\ x.checkpoint = 0

GivenBack(w, x) ==
  /\ w.status \in ClaimedStatuses
  /\ x.claimId = None
  /\ x.status = "suspended"
  /\ x.checkpoint = w.checkpoint
  /\ x.suspendedAt = w.suspendedAt

\* What a settlement writes lets go of the claim, and only a rejection gives
\* the suspension back.
LEMMA SettledColumns ==
  ASSUME NEW w \in Rows, w.status \in ClaimedStatuses,
         NEW outcome \in {"suspended", "finished", "failed", "rejected"},
         NEW x \in SettledRows(w, outcome)
  PROVE  IF outcome = "rejected" THEN GivenBack(w, x) ELSE Moved(w, x)
<1>1. /\ Released(w).claimId = None
      /\ Released(w).checkpoint = w.checkpoint
      /\ Released(w).suspendedAt = w.suspendedAt
      /\ Released(w) \in Rows
  BY WrittenRows DEF Released, Unclaimed, Rows
<1>2. CASE outcome = "rejected"
  BY <1>1, <1>2 DEF SettledRows, PutBackRow, GivenBack, Rows
<1>3. CASE outcome = "suspended"
  <2>1. PICK at \in NextSuspendedAt(w) : x = SuspendedRow(w, at)
    BY <1>3 DEF SettledRows
  <2>2. /\ at \in {w.suspendedAt, w.suspendedAt + 1} /\ at # 0
        /\ DistinctTimestamps => at = w.suspendedAt + 1
    BY <2>1 DEF NextSuspendedAt, Rows
  <2>3. /\ x.status = "suspended" /\ x.claimId = None
        /\ x.suspendedAt = at /\ x.checkpoint = w.checkpoint + 1
    BY <1>1, <2>1 DEF SuspendedRow, Rows
  <2>4. QED BY <1>3, <2>2, <2>3 DEF Moved
<1>4. CASE outcome \in EndedStatuses
  BY <1>1, <1>4 DEF SettledRows, EndedRow, EndedStatuses, Moved, Rows
<1>5. QED BY <1>2, <1>3, <1>4 DEF EndedStatuses

\* Recovery puts a run back on its suspension, or ends a run that had none.
LEMMA RecoveredColumns ==
  ASSUME NEW w \in Rows, w.status \in ClaimedStatuses, NEW e \in ExpiredClaims
  PROVE  IF e.hasCheckpoint THEN GivenBack(w, RecoveredRow(w, e))
                            ELSE Moved(w, RecoveredRow(w, e))
<1>1. /\ Unclaimed(w).claimId = None
      /\ Unclaimed(w).checkpoint = w.checkpoint
      /\ Unclaimed(w).suspendedAt = w.suspendedAt
      /\ Unclaimed(w) \in Rows
  BY DEF Unclaimed, Rows
<1>2. QED BY <1>1 DEF RecoveredRow, GivenBack, Moved, EndedStatuses, Rows

\* No sweep gets an entry it did not have.
SweepsShrink ==
  \A n \in Node : /\ sweep'[n].now = sweep[n].now \/ sweep'[n].now = 0
                  /\ sweep'[n].found \subseteq sweep[n].found

LEMMA IInvInit == Init => IInv
<1> SUFFICES ASSUME Init PROVE IInv
  OBVIOUS
<1>1. \A r \in Run : /\ row[r].status = "absent" /\ row[r].claimId = None
                     /\ row[r].suspendedAt = 0 /\ row[r].checkpoint = 0
  BY DEF Init, AbsentRow
<1>2. \A o \in Op : pc[o] = "free" /\ None # o
  BY NoneAssumption DEF Init
<1>3. RowsCoherent
  BY <1>1 DEF RowsCoherent, ActiveIffClaimed, CheckpointIffResumable,
              ClaimedStatuses, EndedStatuses
<1>4. \A n \in Node : sweep[n].now = 0 /\ sweep[n].found = {}
  BY DEF Init, NoSweep
<1>5. SweepsFresh
  BY <1>4 DEF Init, SweepsFresh
<1>6. QED
  BY <1>1, <1>2, <1>3, <1>5
  DEF IInv, ClaimsHeld, Numbered, SettledPast, OneOutcome,
      OneOutcomePerSuspension, ActiveStatuses, ClaimedStatuses

\* A step after which every row is owned as before, and no operation reads a
\* run or settles one.
LEMMA QuietStep ==
  ASSUME Typed, Typed', IInv, UNCHANGED op, SweepsShrink, clock' >= clock,
         \A r \in Run : SameColumns(row[r], row'[r]),
         \A o \in Op : \/ pc'[o] = pc[o]
                       \/ /\ pc'[o] \notin {"free", "loaded", "settled"}
                          /\ pc'[o] = "reload" => pc[o] = "loaded"
                          /\ pc'[o] \in Claimants
                               \/ \A r \in Run : row[r].claimId # o
  PROVE  IInv'
<1> USE DEF IInv, Typed, TypeOK
<1>1. RowsCoherent'
  BY DEF RowsCoherent, ActiveIffClaimed, CheckpointIffResumable, SameColumns,
         ClaimedStatuses, EndedStatuses
<1>2. ClaimsHeld'
  BY DEF ClaimsHeld, TakesOver, SameColumns
<1>3. SweepsFresh'
  <2> SUFFICES ASSUME NEW n \in Node
               PROVE  /\ sweep'[n].now <= clock'
                      /\ \A e \in sweep'[n].found :
                           /\ pc'[e.claimId] \notin NotYetClaimant
                           /\ row'[e.run].claimId = e.claimId =>
                                (e.hasCheckpoint <=> row'[e.run].checkpoint # 0)
    BY DEF SweepsFresh
  <2>1. /\ sweep[n].now \in Nat /\ sweep[n].found \subseteq ExpiredClaims
        /\ \A e \in ExpiredClaims : e.claimId \in Op /\ e.run \in Run
    BY DEF Sweeps, ExpiredClaims
  <2>2. sweep'[n].now <= clock'
    BY <2>1 DEF SweepsFresh, SweepsShrink
  <2>3. ASSUME NEW e \in sweep'[n].found
        PROVE  /\ pc'[e.claimId] \notin NotYetClaimant
               /\ row'[e.run].claimId = e.claimId =>
                    (e.hasCheckpoint <=> row'[e.run].checkpoint # 0)
    <3>1. e \in sweep[n].found
      BY DEF SweepsShrink
    <3>2. QED BY SMTT(20), <2>1, <3>1 DEF SweepsFresh, NotYetClaimant, SameColumns
  <2>4. QED BY <2>2, <2>3
<1>4. \A r \in Run : /\ row[r].status \in OutOfPlay <=> row'[r].status \in OutOfPlay
                     /\ row[r].status \in ActiveStatuses
                          <=> row'[r].status \in ActiveStatuses
  BY DEF SameColumns, OutOfPlay, ActiveStatuses, ClaimedStatuses, EndedStatuses
<1>5. \A o \in Op : pc'[o] \in {"loaded", "settled"} => pc[o] = pc'[o] /\ op[o].run \in Run
  BY DEF OpsPlaced
<1>6. Numbered'
  BY <1>4, <1>5 DEF Numbered, SameColumns
<1>7. SettledPast'
  BY <1>4, <1>5 DEF SettledPast, ClaimsSuspension, TakesOver, SameColumns
<1>8. OneOutcome'
  BY DEF OneOutcome, OneOutcomePerSuspension, ClaimsSuspension, TakesOver
<1>9. QED BY <1>1, <1>2, <1>3, <1>6, <1>7, <1>8

\* An operation reads a run: it owns nothing yet.
LEMMA ReadStep ==
  ASSUME Typed, IInv, NEW o \in Op, NEW kind \in Kinds, NEW n \in Node,
         NEW r \in Run, NEW again \in BOOLEAN,
         pc[o] \in {"free", "reload"},
         op' = [op EXCEPT ![o] = Loaded(kind, n, r, again)],
         Goto(o, "loaded"), UNCHANGED <<row, clock>>, SweepsShrink
  PROVE  IInv'
<1> USE DEF IInv, Typed, TypeOK
<1>1. \A q \in Run : row[q].claimId # o
  BY DEF ClaimsHeld, Claimants, InHand
<1>2. /\ \A q \in Op \ {o} : op'[q] = op[q] /\ pc'[q] = pc[q]
      /\ pc'[o] = "loaded"
      /\ op'[o].run = r /\ op'[o].suspendedAt = row[r].suspendedAt
      /\ op'[o].checkpoint = row[r].checkpoint
  BY DEF Loaded
<1>3. RowsCoherent'
  BY DEF RowsCoherent, ActiveIffClaimed, CheckpointIffResumable
<1>4. ClaimsHeld'
  BY <1>1, <1>2 DEF ClaimsHeld, TakesOver
<1>5. SweepsFresh'
  <2>1. ASSUME NEW m \in Node, NEW e \in sweep[m].found
        PROVE  e.claimId # o /\ e.claimId \in Op /\ pc[e.claimId] \notin NotYetClaimant
    BY DEF SweepsFresh, NotYetClaimant, Sweeps, ExpiredClaims
  <2>2. \A m \in Node : sweep'[m].now <= clock
    <3>1. \A m \in Node : sweep[m].now <= clock
      BY DEF SweepsFresh
    <3>2. QED BY <3>1 DEF SweepsShrink
  <2>3. QED BY <1>2, <2>1, <2>2 DEF SweepsFresh, SweepsShrink
<1>6. Numbered'
  <2>1. DistinctTimestamps =>
          \/ row[r].suspendedAt = row[r].checkpoint
          \/ row[r].status \in OutOfPlay
    BY DEF Numbered, RowsCoherent, OutOfPlay, Statuses, Rows
  <2>2. QED BY <1>2, <2>1 DEF Numbered
<1>7. SettledPast'
  BY <1>2 DEF SettledPast, ClaimsSuspension, TakesOver
<1>8. OneOutcome'
  BY <1>2 DEF OneOutcome, OneOutcomePerSuspension, ClaimsSuspension, TakesOver
<1>9. QED BY <1>3, <1>4, <1>5, <1>6, <1>7, <1>8

\* A run is created under the claim of its first pass.
LEMMA CreateStep ==
  ASSUME Typed, IInv, NEW o \in Op, NEW n \in Node, NEW r \in Run,
         CreateClaimed(o, n, r)
  PROVE  IInv'
<1> USE DEF IInv, Typed, TypeOK
<1>1. \A q \in Run : row[q].claimId # o
  BY DEF CreateClaimed, ClaimsHeld, Claimants, InHand
<1>2. /\ \A q \in Op \ {o} : op'[q] = op[q] /\ pc'[q] = pc[q]
      /\ pc'[o] = "inserted"
      /\ op'[o].run = r /\ op'[o].kind = "start" /\ op'[o].checkpoint = 0
  BY DEF CreateClaimed, Loaded, RowsCoherent
<1>3. /\ \A q \in Run \ {r} : row'[q] = row[q]
      /\ row[r].status = "absent"
      /\ row'[r].status = "idle" /\ row'[r].claimId = o
      /\ row'[r].suspendedAt = 0 /\ row'[r].checkpoint = 0
  BY DEF CreateClaimed, AbsentRow
<1>4. row[r].claimId = None
  BY <1>3 DEF RowsCoherent, ActiveIffClaimed, ClaimedStatuses
<1>5. RowsCoherent'
  BY <1>3, NoneAssumption
  DEF RowsCoherent, ActiveIffClaimed, CheckpointIffResumable, ClaimedStatuses,
      EndedStatuses
<1>6. ClaimsHeld'
  BY <1>1, <1>2, <1>3 DEF ClaimsHeld, TakesOver, Claimants
<1>7. SweepsFresh'
  <2>1. ASSUME NEW m \in Node, NEW e \in sweep[m].found
        PROVE  /\ e.claimId # o /\ e.claimId \in Op /\ e.run \in Run
               /\ pc[e.claimId] \notin NotYetClaimant
    BY DEF CreateClaimed, SweepsFresh, NotYetClaimant, Sweeps, ExpiredClaims
  <2>2. UNCHANGED <<sweep, clock>>
    BY DEF CreateClaimed
  <2>3. QED BY <1>2, <1>3, <2>1, <2>2 DEF SweepsFresh
<1>8. Numbered'
  BY <1>2, <1>3 DEF Numbered, OpsPlaced, OutOfPlay, EndedStatuses
<1>9. SettledPast'
  BY <1>2, <1>3
  DEF SettledPast, ClaimsSuspension, TakesOver, OpsPlaced, OutOfPlay,
      EndedStatuses, RowsCoherent, Ops
<1>10. OneOutcome'
  BY <1>2 DEF OneOutcome, OneOutcomePerSuspension, ClaimsSuspension, TakesOver
<1>11. QED BY <1>5, <1>6, <1>7, <1>8, <1>9, <1>10

\* A suspended run is claimed: the token goes on the row with nothing else.
LEMMA ClaimStep ==
  ASSUME Typed, IInv, NEW o \in Op, NEW r \in Run, op[o].run = r,
         pc[o] = "loaded", ~TakesOver(o), op[o].kind # "start",
         OnLoadedSuspension(r, o), WriteRow(r, ClaimedRow(row[r], o)),
         Goto(o, "claimed"), UNCHANGED <<op, sweep, clock>>
  PROVE  IInv'
<1> USE DEF IInv, Typed, TypeOK
<1>1. \A q \in Run : row[q].claimId # o
  BY DEF ClaimsHeld, Claimants, InHand
<1>2. /\ \A q \in Op \ {o} : pc'[q] = pc[q]
      /\ pc'[o] = "claimed"
      /\ op' = op
  OBVIOUS
<1>3. /\ \A q \in Run \ {r} : row'[q] = row[q]
      /\ row[r].status = "suspended"
      /\ row[r].suspendedAt = op[o].suspendedAt
      /\ row'[r].status = "running" /\ row'[r].claimId = o
      /\ row'[r].suspendedAt = row[r].suspendedAt
      /\ row'[r].checkpoint = row[r].checkpoint
  BY DEF OnLoadedSuspension, ClaimedRow, Rows
<1>4. row[r].checkpoint # 0 /\ row[r].suspendedAt # 0
  BY <1>3 DEF RowsCoherent, CheckpointIffResumable
<1>5. DistinctTimestamps => row[r].checkpoint = op[o].checkpoint
  BY <1>3 DEF Numbered, ActiveStatuses, OutOfPlay, EndedStatuses
<1>6. RowsCoherent'
  BY <1>3, NoneAssumption
  DEF RowsCoherent, ActiveIffClaimed, CheckpointIffResumable, ClaimedStatuses,
      EndedStatuses
<1>7. ClaimsHeld'
  BY <1>1, <1>2, <1>3, <1>4, <1>5 DEF ClaimsHeld, TakesOver, Claimants
<1>8. SweepsFresh'
  <2>1. ASSUME NEW m \in Node, NEW e \in sweep[m].found
        PROVE  /\ e.claimId # o /\ e.claimId \in Op /\ e.run \in Run
               /\ pc[e.claimId] \notin NotYetClaimant
    BY DEF SweepsFresh, NotYetClaimant, Sweeps, ExpiredClaims
  <2>2. QED BY <1>2, <1>3, <2>1 DEF SweepsFresh
<1>9. Numbered'
  BY <1>2, <1>3
  DEF Numbered, OpsPlaced, OutOfPlay, EndedStatuses, ActiveStatuses
<1>10. SettledPast'
  BY <1>2, <1>3
  DEF SettledPast, ClaimsSuspension, TakesOver, OpsPlaced, OutOfPlay,
      EndedStatuses
<1>11. OneOutcome'
  BY <1>2 DEF OneOutcome, OneOutcomePerSuspension, ClaimsSuspension, TakesOver
<1>12. QED BY <1>6, <1>7, <1>8, <1>9, <1>10, <1>11

\* A claimed run is let go of, by its claimant, by the closing of its thread
\* or by recovery.
LEMMA LetGoStep ==
  ASSUME Typed, Typed', IInv, NEW r \in Run,
         \A q \in Run \ {r} : row'[q] = row[q],
         \/ Moved(row[r], row'[r])
         \/ GivenBack(row[r], row'[r]) /\ row[r].checkpoint # 0,
         UNCHANGED <<op, clock>>, SweepsShrink,
         \A q \in Op : \/ pc'[q] = pc[q]
                       \/ /\ pc'[q] \in {"settled", "rejected", "threw"}
                          /\ row[r].claimId = q \/ TakesOver(q)
                          /\ op[q].run = r
                          /\ pc'[q] = "settled" => Moved(row[r], row'[r])
  PROVE  IInv'
<1> USE DEF IInv, Typed, TypeOK
<1>1. /\ row[r].status \in ClaimedStatuses /\ row'[r].claimId = None
      /\ row'[r].status \in {"suspended"} \cup EndedStatuses
      /\ row[r].claimId \in Op
  BY DEF Moved, GivenBack, RowsCoherent, ActiveIffClaimed, Rows
<1>2. RowsCoherent'
  <2>1. row[r].checkpoint # 0 => row[r].suspendedAt # 0
    BY <1>1 DEF ClaimsHeld
  <2>2. row[r].checkpoint + 1 # 0
    BY DEF Rows
  <2>3. /\ row'[r].status = "suspended" =>
             row'[r].checkpoint # 0 /\ row'[r].suspendedAt # 0
        /\ row'[r].status \in EndedStatuses => row'[r].checkpoint = 0
    BY <2>1, <2>2 DEF Moved, GivenBack, EndedStatuses
  <2>4. QED
    BY <1>1, <2>3
    DEF RowsCoherent, ActiveIffClaimed, CheckpointIffResumable,
        ClaimedStatuses, EndedStatuses
<1>3. ClaimsHeld'
  BY <1>1, NoneAssumption DEF ClaimsHeld, TakesOver
<1>4. SweepsFresh'
  <2>1. ASSUME NEW m \in Node, NEW e \in sweep[m].found
        PROVE  /\ e.claimId \in Op /\ e.run \in Run
               /\ pc[e.claimId] \notin NotYetClaimant
               /\ row[e.run].claimId = e.claimId =>
                    (e.hasCheckpoint <=> row[e.run].checkpoint # 0)
    BY DEF SweepsFresh, NotYetClaimant, Sweeps, ExpiredClaims
  <2>2. \A m \in Node : sweep'[m].now <= clock
    <3>1. \A m \in Node : sweep[m].now <= clock
      BY DEF SweepsFresh
    <3>2. QED BY <3>1 DEF SweepsShrink
  <2>3. ASSUME NEW m \in Node, NEW e \in sweep'[m].found
        PROVE  /\ pc'[e.claimId] \notin NotYetClaimant
               /\ row'[e.run].claimId = e.claimId =>
                    (e.hasCheckpoint <=> row'[e.run].checkpoint # 0)
    <3>1. e \in sweep[m].found
      BY DEF SweepsShrink
    <3>2. pc'[e.claimId] \notin NotYetClaimant
      BY <2>1, <3>1 DEF NotYetClaimant
    <3>3. CASE e.run = r
      BY <1>1, <2>1, <3>1, <3>2, <3>3, NoneAssumption
    <3>4. CASE e.run # r
      BY <2>1, <3>1, <3>2, <3>4
    <3>5. QED BY <3>3, <3>4
  <2>4. QED BY <2>2, <2>3 DEF SweepsFresh
<1>5. Numbered'
  BY <1>1
  DEF Numbered, OpsPlaced, OutOfPlay, ActiveStatuses, ClaimedStatuses,
      EndedStatuses, Moved, GivenBack
<1>6. SettledPast'
  <2>1. SUFFICES ASSUME DistinctTimestamps, NEW q \in Op, pc'[q] = "settled",
                        ClaimsSuspension(q)
                 PROVE  \/ row'[op[q].run].status \in OutOfPlay
                        \/ row'[op[q].run].checkpoint > op[q].checkpoint
    BY DEF SettledPast, ClaimsSuspension, TakesOver
  <2>2. op[q].run \in Run /\ op[q].checkpoint \in Nat
    BY <2>1 DEF OpsPlaced, Ops
  <2>3. CASE op[q].run # r
    BY <2>1, <2>2, <2>3 DEF SettledPast, ClaimsSuspension
  <2>4. CASE op[q].run = r /\ pc[q] = "settled"
    <3>1. row[r].checkpoint > op[q].checkpoint
      BY <1>1, <2>1, <2>4
      DEF SettledPast, OutOfPlay, ClaimedStatuses, EndedStatuses
    <3>2. \/ row'[r].status \in OutOfPlay
          \/ row'[r].checkpoint \in {row[r].checkpoint, row[r].checkpoint + 1}
      BY DEF Moved, GivenBack, OutOfPlay
    <3>3. row[r].checkpoint \in Nat
      BY DEF Rows
    <3>4. QED BY <2>2, <2>4, <3>1, <3>2, <3>3
  <2>5. CASE op[q].run = r /\ pc[q] # "settled"
    <3>1. row[r].checkpoint = op[q].checkpoint /\ Moved(row[r], row'[r])
      BY <2>1, <2>5 DEF ClaimsHeld, ClaimsSuspension
    <3>2. QED BY <2>2, <2>5, <3>1 DEF Moved, OutOfPlay
  <2>6. QED BY <2>3, <2>4, <2>5
<1>7. OneOutcome'
  <2>1. SUFFICES ASSUME DistinctTimestamps, NEW p \in Op, NEW q \in Op, p # q,
                        op[p].run = op[q].run,
                        pc'[p] = "settled", pc'[q] = "settled",
                        pc[q] # "settled",
                        ClaimsSuspension(p), ClaimsSuspension(q)
                 PROVE  op[p].checkpoint # op[q].checkpoint
    BY DEF OneOutcome, OneOutcomePerSuspension, ClaimsSuspension, TakesOver
  <2>2. op[q].run = r /\ row[r].claimId = q /\ row[r].checkpoint = op[q].checkpoint
    BY <2>1 DEF ClaimsHeld, ClaimsSuspension
  <2>3. pc[p] = "settled"
    BY <2>1, <2>2 DEF ClaimsSuspension
  <2>4. row[r].checkpoint > op[p].checkpoint
    BY <1>1, <2>1, <2>2, <2>3
    DEF SettledPast, OutOfPlay, ClaimedStatuses, EndedStatuses
  <2>5. QED BY <2>1, <2>2, <2>4 DEF Ops
<1>8. QED BY <1>2, <1>3, <1>4, <1>5, <1>6, <1>7

LEMMA DeleteStep ==
  ASSUME Typed, IInv, NEW r \in Run, DeleteRun(r)
  PROVE  IInv'
<1> USE DEF IInv, Typed, TypeOK
<1>1. /\ \A q \in Run \ {r} : row'[q] = row[q]
      /\ row'[r].status = "deleted" /\ row'[r].claimId = None
      /\ row'[r].checkpoint = 0
      /\ UNCHANGED <<op, pc, sweep, clock>>
  BY DEF DeleteRun, AbsentRow
<1>2. RowsCoherent'
  BY <1>1
  DEF RowsCoherent, ActiveIffClaimed, CheckpointIffResumable, ClaimedStatuses,
      EndedStatuses
<1>3. ClaimsHeld'
  BY <1>1, NoneAssumption DEF ClaimsHeld, TakesOver
<1>4. SweepsFresh'
  <2>1. \A m \in Node : \A e \in sweep[m].found : e.claimId # None /\ e.run \in Run
    BY NoneAssumption DEF Sweeps, ExpiredClaims
  <2>2. QED BY <1>1, <2>1 DEF SweepsFresh
<1>5. Numbered'
  BY <1>1 DEF Numbered, OutOfPlay, ActiveStatuses, ClaimedStatuses, OpsPlaced
<1>6. SettledPast'
  BY <1>1
  DEF SettledPast, ClaimsSuspension, TakesOver, OutOfPlay, OpsPlaced
<1>7. OneOutcome'
  BY <1>1 DEF OneOutcome, OneOutcomePerSuspension, ClaimsSuspension, TakesOver
<1>8. QED BY <1>2, <1>3, <1>4, <1>5, <1>6, <1>7

LEMMA OperationKeepsIInv ==
  ASSUME Typed, Typed', IInv, NEW o \in Op, Operate(o)
  PROVE  IInv'
<1> USE DEF Typed, TypeOK
<1>1. ASSUME NEW n \in Node, NEW r \in Run, CreateClaimed(o, n, r)
      PROVE  IInv'
  BY <1>1, CreateStep
<1>2. ASSUME UNCHANGED sweep PROVE SweepsShrink
  BY <1>2 DEF SweepsShrink
<1>3. ASSUME NEW n \in Node, NEW r \in Run,
             NEW kind \in {"resume", "cancel", "abort"}, LoadRun(o, n, r, kind)
      PROVE  IInv'
  BY <1>2, <1>3, ReadStep DEF LoadRun, Kinds
\* A step of operation o that leaves the table as it is.
<1>4. ASSUME NEW step \in Over \cup {"reload"} \cup InHand, Goto(o, step),
             step \notin {"settled", "rejected"},
             UNCHANGED <<row, op, sweep, clock>>, pc[o] # "free",
             step = "reload" => pc[o] = "loaded",
             step \in Claimants \/ \A r \in Run : row[r].claimId # o
      PROVE  IInv'
  <2>1. \A r \in Run : SameColumns(row[r], row'[r])
    BY <1>4 DEF SameColumns
  <2>2. step \notin {"free", "loaded", "settled"}
    BY <1>4 DEF Over, InHand
  <2>3. QED BY <1>2, <1>4, <2>1, <2>2, QuietStep
<1>5. ASSUME pc[o] \in {"loaded", "reload"} PROVE \A r \in Run : row[r].claimId # o
  BY <1>5 DEF IInv, ClaimsHeld, Claimants, InHand
<1>6. ASSUME ReloadActive(o) PROVE IInv'
  <2>1. CASE Goto(o, "claim_lost") /\ UNCHANGED op
    <3>1. pc[o] = "reload" /\ UNCHANGED <<row, op, sweep, clock>>
      BY <1>6, <2>1 DEF ReloadActive
    <3>2. "claim_lost" \in Over
      BY DEF Over
    <3>3. "claim_lost" \notin {"settled", "rejected", "reload"}
      OBVIOUS
    <3>4. \A r \in Run : row[r].claimId # o
      BY <1>5, <3>1
    <3>5. QED BY <1>4, <2>1, <3>1, <3>2, <3>3, <3>4
  <2>2. CASE /\ op' = [op EXCEPT ![o] = Loaded("abort", op[o].node, op[o].run, TRUE)]
             /\ Goto(o, "loaded")
    BY <1>2, <1>6, <2>2, ReadStep DEF ReloadActive, OpsPlaced, Kinds
  <2>3. QED BY <1>6, <2>1, <2>2 DEF ReloadActive
<1>7. ASSUME pc[o] = "loaded", Missed(o), UNCHANGED <<row, op, sweep, clock>>
      PROVE  IInv'
  <2>1. PICK step \in {"reload", "claim_lost"} : Goto(o, step)
    BY <1>7 DEF Missed
  <2>2. /\ \A r \in Run : row[r].claimId # o
        /\ step \in Over \cup {"reload"} \cup InHand
        /\ step \notin {"settled", "rejected"} /\ pc[o] # "free"
    BY <1>5, <1>7 DEF Over
  <2>3. QED BY <1>4, <1>7, <2>1, <2>2
<1>8. ASSUME ClaimSuspended(o) PROVE IInv'
  <2>1. CASE OnLoadedSuspension(op[o].run, o)
    BY <1>8, <2>1, ClaimStep DEF ClaimSuspended, OpsPlaced
  <2>2. CASE ~OnLoadedSuspension(op[o].run, o)
    BY <1>7, <1>8, <2>2 DEF ClaimSuspended
  <2>3. QED BY <2>1, <2>2
\* A settlement of a claimed run by operation o.
<1>9. ASSUME NEW r \in Run, NEW x, op[o].run = r, WriteRow(r, x),
             \/ Moved(row[r], x)
             \/ GivenBack(row[r], x) /\ row[r].checkpoint # 0,
             NEW step \in {"settled", "rejected", "threw"}, Goto(o, step),
             row[r].claimId = o \/ TakesOver(o),
             step = "settled" => Moved(row[r], x),
             UNCHANGED <<op, sweep, clock>>
      PROVE  IInv'
  <2>1. row'[r] = x /\ \A q \in Run \ {r} : row'[q] = row[q]
    BY <1>9
  <2>2. \A q \in Op : \/ pc'[q] = pc[q]
                      \/ q = o /\ pc'[q] = step
    BY <1>9
  <2>3. QED BY <1>2, <1>9, <2>1, <2>2, LetGoStep
<1>10. ASSUME TakeOver(o) PROVE IInv'
  <2>1. CASE row[op[o].run].status \in ClaimedStatuses
    <3>1. Moved(row[op[o].run], EndedRow(row[op[o].run], "failed"))
      BY <1>10, <2>1, SettledColumns DEF TakeOver, OpsPlaced, SettledRows
    <3>2. QED BY <1>9, <1>10, <2>1, <3>1 DEF TakeOver, OpsPlaced
  <2>2. CASE row[op[o].run].status \notin ClaimedStatuses
    BY <1>7, <1>10, <2>2 DEF TakeOver
  <2>3. QED BY <2>1, <2>2
<1>11. ASSUME HandOver(o) PROVE IInv'
  <2>1. PICK step \in InHand : Goto(o, step)
    BY <1>11 DEF HandOver, InHand
  <2>2. QED BY <1>4, <1>11, <2>1 DEF HandOver, Claimants, InHand
<1>12. ASSUME HandOverFails(o) PROVE IInv'
  <2>1. PICK step \in {"threw"} : Goto(o, step)
    BY <1>12 DEF HandOverFails
  <2>2. /\ pc[o] # "free" /\ UNCHANGED <<row, op, sweep, clock>>
        /\ step \in Claimants /\ step \in Over
        /\ step \notin {"reload", "settled", "rejected"}
    BY <1>12 DEF HandOverFails, Claimants, Over
  <2>3. QED BY <1>4, <2>1, <2>2
<1>13. ASSUME pc[o] \in InHand, ~HeldUnder(op[o].run, o)
       PROVE  \A r \in Run : row[r].claimId # o
  BY <1>13, NoneAssumption
  DEF IInv, ClaimsHeld, RowsCoherent, ActiveIffClaimed, HeldUnder
<1>14. ASSUME MarkRunning(o) PROVE IInv'
  <2>1. CASE HeldUnder(op[o].run, o)
    <3>1. \A r \in Run : SameColumns(row[r], row'[r])
      BY <1>14, <2>1 DEF MarkRunning, HeldUnder, SameColumns, ClaimedStatuses, Rows
    <3>2. pc' = [pc EXCEPT ![o] = "running"] /\ UNCHANGED <<op, sweep, clock>>
      BY <1>14, <2>1 DEF MarkRunning
    <3>3. QED BY <1>2, <3>1, <3>2, QuietStep DEF Claimants, InHand
  <2>2. CASE ~HeldUnder(op[o].run, o)
    BY <1>4, <1>13, <1>14, <2>2 DEF MarkRunning, Over, InHand
  <2>3. QED BY <2>1, <2>2
<1>15. ASSUME NEW outcome \in {"suspended", "finished", "failed", "rejected"},
              outcome \in Outcomes(o), HeldUnder(op[o].run, o), pc[o] \in InHand,
              NEW x \in SettledRows(row[op[o].run], outcome)
       PROVE  /\ op[o].run \in Run
              /\ row[op[o].run].claimId = o
              /\ IF outcome = "rejected"
                   THEN /\ GivenBack(row[op[o].run], x)
                        /\ row[op[o].run].checkpoint # 0
                   ELSE Moved(row[op[o].run], x)
  <2>1. op[o].run \in Run /\ row[op[o].run].claimId = o
        /\ row[op[o].run].status \in ClaimedStatuses
    BY <1>15 DEF OpsPlaced, HeldUnder, InHand
  <2>2. outcome = "rejected" => row[op[o].run].checkpoint # 0
    BY <1>15, <2>1 DEF Outcomes, IInv, ClaimsHeld
  <2>3. QED BY <1>15, <2>1, <2>2, SettledColumns
<1>16. ASSUME NEW outcome \in {"suspended", "finished", "failed", "rejected"},
              Settle(o, outcome)
       PROVE  IInv'
  <2>1. CASE HeldUnder(op[o].run, o)
    <3>1. PICK x \in SettledRows(row[op[o].run], outcome) : WriteRow(op[o].run, x)
      BY <1>16, <2>1 DEF Settle
    <3>2. CASE outcome = "rejected"
      BY <1>9, <1>15, <1>16, <2>1, <3>1, <3>2 DEF Settle
    <3>3. CASE outcome # "rejected"
      BY <1>9, <1>15, <1>16, <2>1, <3>1, <3>3 DEF Settle
    <3>4. QED BY <3>2, <3>3
  <2>2. CASE ~HeldUnder(op[o].run, o)
    BY <1>4, <1>13, <1>16, <2>2 DEF Settle, Over, InHand
  <2>3. QED BY <2>1, <2>2
<1>17. ASSUME NEW outcome \in {"suspended", "finished", "failed", "rejected"},
              SettleThrows(o, outcome)
       PROVE  IInv'
  <2>1. CASE UNCHANGED row
    BY <1>4, <1>17, <2>1 DEF SettleThrows, Over, InHand, Claimants
  <2>2. CASE /\ HeldUnder(op[o].run, o)
             /\ \E x \in SettledRows(row[op[o].run], outcome) : WriteRow(op[o].run, x)
    <3>1. PICK x \in SettledRows(row[op[o].run], outcome) : WriteRow(op[o].run, x)
      BY <2>2
    <3>2. QED BY <1>9, <1>15, <1>17, <2>2, <3>1 DEF SettleThrows
  <2>3. QED BY <1>17, <2>1, <2>2 DEF SettleThrows
<1>18. QED
  BY <1>1, <1>3, <1>6, <1>8, <1>10, <1>11, <1>12, <1>14, <1>16, <1>17
  DEF Operate

LEMMA RecoveryKeepsIInv ==
  ASSUME Typed, Typed', IInv, NEW n \in Node, Recovery(n)
  PROVE  IInv'
<1> USE DEF Typed, TypeOK
\* A step that leaves the ownership of every run and every operation alone.
<1>1. ASSUME UNCHANGED <<op, pc, clock>>, SweepsShrink,
             \A r \in Run : SameColumns(row[r], row'[r])
      PROVE  IInv'
  BY <1>1, QuietStep
<1>2. ASSUME UNCHANGED sweep PROVE SweepsShrink
  BY <1>2 DEF SweepsShrink
<1>3. ASSUME UNCHANGED row PROVE \A r \in Run : SameColumns(row[r], row'[r])
  BY <1>3 DEF SameColumns
<1>4. CASE RenewNothing(n) \/ RenewStart(n) \/ RenewThrows(n) \/ SweepThrows(n)
  BY <1>1, <1>2, <1>3, <1>4
  DEF RenewNothing, RenewStart, RenewThrows, SweepThrows
<1>5. CASE RenewWrite(n)
  <2>1. \A r \in Run : SameColumns(row[r], row'[r])
    BY <1>5 DEF RenewWrite, SameColumns, Rows
  <2>2. QED BY <1>1, <1>2, <1>5, <2>1 DEF RenewWrite
<1>6. CASE SweepFind(n)
  <2> USE DEF IInv
  <2>1. UNCHANGED <<row, op, pc, clock>>
    BY <1>6 DEF SweepFind
  <2>2. /\ RowsCoherent' /\ ClaimsHeld' /\ Numbered' /\ SettledPast' /\ OneOutcome'
    BY <2>1
    DEF RowsCoherent, ActiveIffClaimed, CheckpointIffResumable, ClaimsHeld,
        Numbered, SettledPast, OneOutcome, OneOutcomePerSuspension,
        ClaimsSuspension, TakesOver
  <2>3. \A e \in Expired(clock) :
          /\ pc[e.claimId] \notin NotYetClaimant
          /\ e.hasCheckpoint <=> row[e.run].checkpoint # 0
    <3>1. ASSUME NEW r \in Run, row[r].claimId # None
          PROVE  pc[row[r].claimId] \notin NotYetClaimant
      <4>1. row[r].claimId \in Op
        BY <3>1 DEF Rows
      <4>2. QED BY <4>1 DEF ClaimsHeld, Claimants, InHand, NotYetClaimant
    <3>2. ASSUME NEW e \in Expired(clock)
          PROVE  \E r \in Run :
                   /\ row[r].claimId # None /\ e.claimId = row[r].claimId
                   /\ e.run = r /\ e.hasCheckpoint = (row[r].checkpoint # 0)
      BY DEF Expired
    <3>3. QED BY <3>1, <3>2
  <2>4. \A m \in Node :
          \/ sweep'[m] = sweep[m]
          \/ sweep'[m].now = clock /\ sweep'[m].found = Expired(clock)
    BY <1>6 DEF SweepFind
  <2>5. SweepsFresh'
    BY <2>1, <2>3, <2>4 DEF SweepsFresh
  <2>6. QED BY <2>2, <2>5
<1>7. ASSUME NEW e \in sweep[n].found, NEW r, SweepGoesOn(n, e, r)
      PROVE  SweepsShrink
  <2>1. Without(sweep[n], e, r).found \subseteq sweep[n].found
        /\ Without(sweep[n], e, r).now \in {0, sweep[n].now}
    BY DEF Without, NoSweep, Sweeps
  <2>2. QED BY <1>7, <2>1 DEF SweepGoesOn, SweepsShrink
<1>8. ASSUME NEW e \in sweep[n].found, SkipHeld(n, e) PROVE IInv'
  BY <1>1, <1>3, <1>7, <1>8 DEF SkipHeld
<1>14. ASSUME NEW e \in sweep[n].found, SendRecovery(n, e) PROVE IInv'
  <2>1. SweepsShrink
    BY <1>14 DEF SendRecovery, SweepsShrink, Sweeps
  <2>2. QED BY <1>1, <1>3, <1>14, <2>1 DEF SendRecovery
\* The write of a recovery, when its claim is still there.
<1>9. ASSUME NEW e \in sweep[n].found, SweepsShrink,
             StillExpired(e.run, e.claimId, sweep[n].now),
             WriteRow(e.run, RecoveredRow(row[e.run], e)),
             UNCHANGED <<op, pc, clock>>
      PROVE  IInv'
  <2>1. e \in ExpiredClaims /\ e.run \in Run
    BY DEF Sweeps, ExpiredClaims
  <2>2. /\ row[e.run].status \in ClaimedStatuses
        /\ e.hasCheckpoint <=> row[e.run].checkpoint # 0
    BY <1>9 DEF StillExpired, IInv, SweepsFresh
  <2>3. row'[e.run] = RecoveredRow(row[e.run], e)
        /\ \A q \in Run \ {e.run} : row'[q] = row[q]
    BY <1>9, <2>1
  <2>4. \/ Moved(row[e.run], row'[e.run])
        \/ GivenBack(row[e.run], row'[e.run]) /\ row[e.run].checkpoint # 0
    BY <2>1, <2>2, <2>3, RecoveredColumns
  <2>5. QED BY <1>9, <2>1, <2>3, <2>4, LetGoStep
<1>10. ASSUME NEW e \in sweep[n].found, RecoverRun(n, e) PROVE IInv'
  <2>1. SweepsShrink /\ UNCHANGED <<op, pc, clock>>
    BY <1>7, <1>10 DEF RecoverRun
  <2>2. QED BY <1>1, <1>3, <1>9, <1>10, <2>1 DEF RecoverRun
<1>11. ASSUME NEW e \in sweep[n].found, RecoverRunThrows(n, e) PROVE IInv'
  <2>1. SweepsShrink /\ UNCHANGED <<op, pc, clock>>
    BY <1>7, <1>11 DEF RecoverRunThrows
  <2>2. QED BY <1>1, <1>3, <1>9, <1>11, <2>1 DEF RecoverRunThrows
<1>12. ASSUME NEW o \in Op, GiveUp(n, o) PROVE IInv'
  <2>1. SweepsShrink
    BY <1>12 DEF GiveUp, SweepsShrink, NoSweep, Sweeps
  <2>2. CASE UNCHANGED <<op, pc>>
    BY <1>1, <1>3, <1>12, <2>1, <2>2 DEF GiveUp
  <2>3. CASE /\ op' = [op EXCEPT ![o] = Loaded("cancel", n, sweep[n].giveUp, FALSE)]
             /\ Goto(o, "loaded")
    <3>1. sweep[n].giveUp \in Run
      BY <1>12 DEF GiveUp, Sweeps
    <3>2. QED BY <1>12, <2>1, <2>3, <3>1, ReadStep DEF GiveUp, Kinds
  <2>4. QED BY <1>12, <2>2, <2>3 DEF GiveUp
<1>13. QED
  BY <1>4, <1>5, <1>6, <1>8, <1>10, <1>11, <1>12, <1>14 DEF Recovery

LEMMA IInvNext == Typed /\ IInv /\ [Next]_vars => IInv'
<1> SUFFICES ASSUME Typed, IInv, [Next]_vars PROVE IInv'
  OBVIOUS
<1>1. Typed'
  BY TypedNext
<1>2. ASSUME NEW o \in Op, Operate(o) PROVE IInv'
  BY <1>1, <1>2, OperationKeepsIInv
<1>3. ASSUME NEW n \in Node, Recovery(n) PROVE IInv'
  BY <1>1, <1>3, RecoveryKeepsIInv
<1>4. ASSUME NEW n \in Node, Crash(n) PROVE IInv'
  <2>1. UNCHANGED <<row, op, clock>>
    BY <1>4 DEF Crash
  <2>2. SweepsShrink
    BY <1>4 DEF Crash, SweepsShrink, NoSweep
  <2>3. \A o \in Op : pc'[o] = pc[o] \/ pc'[o] = "stopped"
    BY <1>4 DEF Crash, Typed, TypeOK
  <2>4. \A r \in Run : SameColumns(row[r], row'[r])
    BY <2>1 DEF SameColumns
  <2>5. clock' >= clock
    BY <2>1 DEF Typed, TypeOK
  <2>6. QED BY <1>1, <2>1, <2>2, <2>3, <2>4, <2>5, QuietStep DEF Claimants
<1>5. ASSUME NEW r \in Run, DeleteRun(r) PROVE IInv'
  BY <1>5, DeleteStep
<1>6. CASE Tick \/ UNCHANGED vars
  <2>1. UNCHANGED <<row, op, pc, sweep>> /\ clock' >= clock
    BY <1>6 DEF Tick, vars, Typed, TypeOK
  <2>2. SweepsShrink /\ \A r \in Run : SameColumns(row[r], row'[r])
    BY <2>1 DEF SweepsShrink, SameColumns
  <2>3. QED BY <1>1, <2>1, <2>2, QuietStep
<1>7. QED BY <1>2, <1>3, <1>4, <1>5, <1>6 DEF Next

LEMMA Invariance == Spec => [](Typed /\ IInv)
<1>1. Typed /\ IInv /\ [Next]_vars => (Typed /\ IInv)'
  BY TypedNext, IInvNext
<1>2. QED BY TypedInit, IInvInit, <1>1, PTL DEF Spec

----------------------------------------------------------------------------
\* The theorems on states.

\* A run is active if and only if a claim is on it: createClaimed,
\* claimSuspended, settle and recoverExpired never part the two columns.
THEOREM ActiveRunsAreClaimed == Spec => []ActiveIffClaimed
  BY Invariance, PTL DEF IInv, RowsCoherent

\* A suspended run has the checkpoint it is resumed from and an ended one has
\* none, through any number of lapsed claims, rejections and recoveries.
THEOREM SuspendedRunsCanBeResumed == Spec => []CheckpointIffResumable
  BY Invariance, PTL DEF IInv, RowsCoherent

\* When no two suspensions of a run carry the same timestamp, a claim is only
\* ever taken on the suspension its operation had read.
THEOREM ClaimsAreOnTheLoadedSuspension ==
  ASSUME DistinctTimestamps
  PROVE  Spec => []ClaimedOnLoadedSuspension
<1>1. Typed /\ IInv => ClaimedOnLoadedSuspension
  BY DEF IInv, ClaimsHeld, ClaimedOnLoadedSuspension
<1>2. QED BY <1>1, Invariance, PTL

\* Then a suspension has one outcome, however many operations had read it.
THEOREM SuspensionsHaveOneOutcome ==
  ASSUME DistinctTimestamps
  PROVE  Spec => []OneOutcomePerSuspension
<1>1. Typed /\ IInv => OneOutcomePerSuspension
  BY DEF IInv, OneOutcome
<1>2. QED BY <1>1, Invariance, PTL

----------------------------------------------------------------------------
\* The theorems on steps.

\* An operation that stops working on a run and writes it does so under its
\* own claim.
LEMMA FencedStep ==
  ASSUME Typed, IInv, [Next]_vars, NEW o \in Op, pc[o] \in InHand,
         pc'[o] # pc[o], row'[op[o].run] # row[op[o].run]
  PROVE  row[op[o].run].claimId = o
<1> USE DEF Typed, TypeOK
<1>1. ASSUME NEW q \in Op, Operate(q) PROVE row[op[o].run].claimId = o
  <2>1. CASE q # o
    BY <1>1, <2>1
    DEF Operate, CreateClaimed, LoadRun, ReloadActive, ClaimSuspended, Missed,
        TakeOver, HandOver, HandOverFails, MarkRunning, Settle, SettleThrows
  <2>2. CASE q = o
    BY <1>1, <2>2
    DEF Operate, CreateClaimed, LoadRun, ReloadActive, ClaimSuspended,
        TakeOver, HandOver, HandOverFails, MarkRunning, Settle, SettleThrows,
        HeldUnder, InHand
  <2>3. QED BY <2>1, <2>2
<1>2. ASSUME NEW n \in Node, Recovery(n) \/ Crash(n) PROVE FALSE
  BY <1>2
  DEF Recovery, Crash, RenewNothing, RenewStart, RenewWrite, RenewThrows,
      SweepFind, SweepThrows, SkipHeld, SendRecovery, RecoverRun,
      RecoverRunThrows, GiveUp, InHand
<1>3. ASSUME NEW r \in Run, DeleteRun(r) PROVE FALSE
  BY <1>3 DEF DeleteRun
<1>4. QED BY <1>1, <1>2, <1>3 DEF Next, Tick, vars

\* What an operation writes as it ends, it writes under its own claim and on
\* the suspension it was claimed from: a pass that was recovered, taken over
\* or deleted meanwhile drops its outcome.
THEOREM OutcomesAreWrittenByTheirClaimant ==
  ASSUME DistinctTimestamps
  PROVE  Spec => OutcomesAreFenced
<1>1. ASSUME Typed, IInv, [Next]_vars
      PROVE  [\A o \in Op :
               LET r == op[o].run IN
               pc[o] \in InHand /\ pc'[o] # pc[o] /\ row'[r] # row[r] =>
                 /\ row[r].claimId = o
                 /\ ClaimsSuspension(o) => row[r].checkpoint = op[o].checkpoint]_vars
  <2>1. SUFFICES ASSUME NEW o \in Op, pc[o] \in InHand, pc'[o] # pc[o],
                        row'[op[o].run] # row[op[o].run]
                 PROVE  /\ row[op[o].run].claimId = o
                        /\ row[op[o].run].checkpoint = op[o].checkpoint
    OBVIOUS
  <2>2. row[op[o].run].claimId = o /\ op[o].run \in Run
    BY <1>1, <2>1, FencedStep DEF Typed, OpsPlaced, InHand
  <2>3. QED BY <1>1, <2>2 DEF IInv, ClaimsHeld
<1>2. QED BY <1>1, Invariance, PTL DEF Spec, OutcomesAreFenced

\* A run that finished or failed is never written again, only deleted.
THEOREM EndedRunsStayEnded == Spec => EndedIsFinal
<1>1. ASSUME Typed, IInv, [Next]_vars
      PROVE  [\A r \in Run : row[r].status \in EndedStatuses =>
                row'[r] = row[r] \/ row'[r].status = "deleted"]_vars
  <2> USE <1>1 DEF Typed, TypeOK
  <2>1. SUFFICES ASSUME NEW r \in Run, row[r].status \in EndedStatuses
                 PROVE  row'[r] = row[r] \/ row'[r].status = "deleted"
    OBVIOUS
  <2>2. /\ row[r].status \notin ClaimedStatuses \cup {"suspended", "absent"}
        /\ row[r].claimId = None
    BY <2>1
    DEF EndedStatuses, ClaimedStatuses, IInv, RowsCoherent, ActiveIffClaimed
  <2>3. ASSUME NEW o \in Op, Operate(o) PROVE row'[r] = row[r]
    BY <2>2, <2>3
    DEF Operate, CreateClaimed, LoadRun, ReloadActive, ClaimSuspended,
        OnLoadedSuspension, TakeOver, HandOver, HandOverFails, MarkRunning,
        Settle, SettleThrows, HeldUnder
  <2>4. ASSUME NEW n \in Node, Recovery(n) PROVE row'[r] = row[r]
    <3>1. CASE RenewWrite(n)
      <4>1. None \notin renewal[n].claims
        BY NoneAssumption DEF Renewals
      <4>2. QED BY <2>2, <3>1, <4>1 DEF RenewWrite
    <3>2. CASE ~RenewWrite(n)
      BY <2>2, <2>4, <3>2
      DEF Recovery, RenewNothing, RenewStart, RenewThrows, SweepFind,
          SweepThrows, SkipHeld, SendRecovery, RecoverRun, RecoverRunThrows,
          StillExpired, GiveUp
    <3>3. QED BY <3>1, <3>2
  <2>5. ASSUME NEW q \in Run, DeleteRun(q)
        PROVE  row'[r] = row[r] \/ row'[r].status = "deleted"
    BY <2>5 DEF DeleteRun, AbsentRow
  <2>6. QED
    BY <2>3, <2>4, <2>5 DEF Next, Crash, Tick, vars
<1>2. QED BY <1>1, Invariance, PTL DEF Spec, EndedIsFinal

\* Only recovery takes a claim away while no operation moves.
LEMMA RecoveredStep ==
  ASSUME Typed, IInv, [Next]_vars, NEW r \in Run, IsRecovered(r)
  PROVE  \E n \in Node : \E e \in sweep[n].found :
           /\ RecoverRun(n, e) \/ RecoverRunThrows(n, e)
           /\ e.run = r /\ StillExpired(r, e.claimId, sweep[n].now)
<1> USE DEF Typed, TypeOK, IsRecovered
<1>1. ASSUME NEW o \in Op, Operate(o) PROVE FALSE
  BY <1>1
  DEF Operate, CreateClaimed, LoadRun, ReloadActive, ClaimSuspended, Missed,
      TakeOver, HandOver, HandOverFails, MarkRunning, Settle, SettleThrows,
      InHand
<1>2. ASSUME NEW n \in Node, Recovery(n)
      PROVE  \E e \in sweep[n].found :
               /\ RecoverRun(n, e) \/ RecoverRunThrows(n, e)
               /\ e.run = r /\ StillExpired(r, e.claimId, sweep[n].now)
  <2>1. CASE RenewWrite(n)
    BY <2>1 DEF RenewWrite, Rows
  <2>2. ASSUME NEW e \in sweep[n].found, RecoverRun(n, e) \/ RecoverRunThrows(n, e)
        PROVE  e.run = r /\ StillExpired(r, e.claimId, sweep[n].now)
    BY <2>2 DEF RecoverRun, RecoverRunThrows
  <2>3. CASE \/ RenewNothing(n) \/ RenewStart(n) \/ RenewThrows(n)
             \/ SweepFind(n) \/ SweepThrows(n)
             \/ \E e \in sweep[n].found : SkipHeld(n, e) \/ SendRecovery(n, e)
             \/ \E o \in Op : GiveUp(n, o)
    BY <2>3
    DEF RenewNothing, RenewStart, RenewThrows, SweepFind, SweepThrows,
        SkipHeld, SendRecovery, GiveUp
  <2>4. QED BY <1>2, <2>1, <2>2, <2>3 DEF Recovery
<1>3. ASSUME NEW q \in Run, DeleteRun(q) PROVE FALSE
  BY <1>3 DEF DeleteRun, AbsentRow
<1>4. QED BY <1>1, <1>2, <1>3 DEF Next, Crash, Tick, vars

\* A claim recovery takes away has lapsed when it is taken away, however long
\* ago the sweep found it lapsed.
THEOREM RecoveredClaimsHadLapsed == Spec => RenewedClaimsAreKept
<1>1. ASSUME Typed, IInv, [Next]_vars
      PROVE  [\A r \in Run : IsRecovered(r) => row[r].claimExpiresAt < clock]_vars
  <2>1. SUFFICES ASSUME NEW r \in Run, IsRecovered(r)
                 PROVE  row[r].claimExpiresAt < clock
    OBVIOUS
  <2>2. PICK n \in Node : \E e \in sweep[n].found :
               StillExpired(r, e.claimId, sweep[n].now)
    BY <1>1, <2>1, RecoveredStep
  <2>3. /\ row[r].claimExpiresAt \in Nat /\ sweep[n].now \in Nat /\ clock \in Nat
        /\ sweep[n].now <= clock
    BY <1>1 DEF Typed, TypeOK, Rows, Sweeps, IInv, SweepsFresh
  <2>4. QED BY <2>2, <2>3 DEF StillExpired
<1>2. QED BY <1>1, Invariance, PTL DEF Spec, RenewedClaimsAreKept

----------------------------------------------------------------------------
\* What a process knows of its own claims.

\* A lease is held by the process of its operation, while it works; the
\* renewal in flight covers leases that were held when it started.
LeasesPlaced ==
  \A n \in Node :
    /\ \A o \in lease[n] : op[o].node = n /\ pc[o] \in InHand
    /\ \A o \in renewal[n].claims :
         op[o].node = n /\ pc[o] \in InHand \cup Over

\* No claim is written to lapse later than one written now would, and a
\* renewal in flight only pushes the lapse of its claims back.
ExpiriesOrdered ==
  /\ \A r \in Run : row[r].claimExpiresAt <= ClaimExpiry
  /\ \A n \in Node : renewal[n].expiresAt <= ClaimExpiry
  /\ \A n \in Node, r \in Run :
       row[r].claimId \in renewal[n].claims =>
         row[r].claimExpiresAt <= renewal[n].expiresAt

\* A claim a sweep is about to recover, and this process got the lease of in
\* the meantime, in time, is not lapsed as the sweep understands it.
SentNotHeld ==
  \A n \in Node :
    /\ sweep[n].sent \subseteq sweep[n].found
    /\ \A e \in sweep[n].sent :
         e.claimId \in lease[n] \ late =>
           ~StillExpired(e.run, e.claimId, sweep[n].now)

LInv == LeasesPlaced /\ ExpiriesOrdered /\ SentNotHeld

\* An operation leaves the claims it finds as they are or clears them, and
\* writes its own before it holds the lease.
LEMMA OperationClaims ==
  ASSUME Typed, NEW o \in Op, Operate(o), NEW r \in Run
  PROVE  \/ row'[r].claimId = None /\ row'[r].claimExpiresAt = 0
         \/ /\ row'[r].claimId = row[r].claimId
            /\ row'[r].claimExpiresAt = row[r].claimExpiresAt
            /\ row'[r].status \in ClaimedStatuses =>
                 row[r].status \in ClaimedStatuses
         \/ /\ row'[r].claimId = o /\ pc[o] \in {"free", "loaded"}
            /\ row'[r].claimExpiresAt = ClaimExpiry
<1> USE DEF Typed, TypeOK
<1>1. CASE row'[r] = row[r]
  BY <1>1
<1>2. CASE \E n \in Node : CreateClaimed(o, n, r)
  BY <1>2 DEF CreateClaimed, AbsentRow
<1>3. CASE /\ ClaimSuspended(o) /\ op[o].run = r
            /\ row'[r] # row[r]
  <2>1. row' = [row EXCEPT ![r] = ClaimedRow(row[r], o)] /\ pc[o] = "loaded"
    BY <1>3 DEF ClaimSuspended
  <2>2. \A w \in Rows : /\ ClaimedRow(w, o).claimId = o
                        /\ ClaimedRow(w, o).claimExpiresAt = ClaimExpiry
    BY DEF ClaimedRow, Rows
  <2>3. row'[r] = ClaimedRow(row[r], o) /\ row[r] \in Rows
    BY <2>1
  <2>4. QED BY <2>1, <2>2, <2>3
<1>4. \A w \in Rows : \A outcome \in {"suspended", "finished", "failed", "rejected"} :
        \A x \in SettledRows(w, outcome) : x.claimId = None /\ x.claimExpiresAt = 0
  <2>1. \A w \in Rows : Released(w) \in Rows /\ Released(w).claimId = None
                       /\ Released(w).claimExpiresAt = 0
    BY WrittenRows DEF Released, Unclaimed, Rows
  <2>2. \A w \in Rows : \A at : /\ SuspendedRow(w, at).claimId = None
                                  /\ SuspendedRow(w, at).claimExpiresAt = 0
    BY <2>1 DEF SuspendedRow, Rows
  <2>3. \A w \in Rows : \A ended : /\ EndedRow(w, ended).claimId = None
                                     /\ EndedRow(w, ended).claimExpiresAt = 0
    BY <2>1 DEF EndedRow, Rows
  <2>4. \A w \in Rows : /\ PutBackRow(w).claimId = None
                       /\ PutBackRow(w).claimExpiresAt = 0
    BY <2>1 DEF PutBackRow, Rows
  <2>5. QED BY <2>2, <2>3, <2>4 DEF SettledRows
<1>5. CASE TakeOver(o) /\ op[o].run = r
  <2>1. EndedRow(row[r], "failed") \in SettledRows(row[r], "failed")
    BY DEF SettledRows
  <2>2. QED BY <1>4, <1>5, <2>1 DEF TakeOver
<1>6. CASE MarkRunning(o) /\ op[o].run = r
  BY <1>6 DEF MarkRunning, HeldUnder, Rows
<1>7. ASSUME NEW outcome \in {"suspended", "finished", "failed", "rejected"},
             Settle(o, outcome) \/ SettleThrows(o, outcome), op[o].run = r
      PROVE  \/ row'[r] = row[r]
             \/ row'[r].claimId = None /\ row'[r].claimExpiresAt = 0
  <2>1. row' = row \/ \E w \in SettledRows(row[r], outcome) : WriteRow(r, w)
    BY <1>7 DEF Settle, SettleThrows
  <2>2. CASE \E w \in SettledRows(row[r], outcome) : WriteRow(r, w)
    <3>1. PICK w \in SettledRows(row[r], outcome) : row' = [row EXCEPT ![r] = w]
      BY <2>2
    <3>2. row'[r] = w
      BY <3>1
    <3>3. QED BY <1>4, <3>2
  <2>3. CASE row' = row
    BY <2>3
  <2>4. QED BY <2>1, <2>2, <2>3
<1>8. CASE row'[r] # row[r]
  BY <1>2, <1>3, <1>5, <1>6, <1>7, <1>8
  DEF Operate, CreateClaimed, LoadRun, ReloadActive, ClaimSuspended, TakeOver,
      HandOver, HandOverFails, MarkRunning, Settle, SettleThrows
<1>9. QED BY <1>1, <1>8

LEMMA OperationKeepsLInv ==
  ASSUME Typed, Typed', IInv, LInv, NEW o \in Op, Operate(o)
  PROVE  LInv'
<1> USE DEF Typed, TypeOK, LInv
<1>1. UNCHANGED <<renewal, sweep, clock>>
  BY DEF Operate, CreateClaimed, LoadRun, ReloadActive, ClaimSuspended, TakeOver,
         HandOver, HandOverFails, MarkRunning, Settle, SettleThrows
<1>2. \A q \in Op \ {o} : pc'[q] = pc[q] /\ op'[q] = op[q]
  <2>1. CASE \/ \E n \in Node, r \in Run :
                  \/ CreateClaimed(o, n, r)
                  \/ \E kind \in {"resume", "cancel", "abort"} : LoadRun(o, n, r, kind)
             \/ ReloadActive(o)
    BY <2>1 DEF CreateClaimed, LoadRun, ReloadActive
  <2>2. CASE ClaimSuspended(o) \/ TakeOver(o) \/ MarkRunning(o)
    BY <2>2 DEF ClaimSuspended, TakeOver, MarkRunning, Missed
  <2>3. CASE HandOver(o) \/ HandOverFails(o)
    BY <2>3 DEF HandOver, HandOverFails
  <2>4. CASE \E outcome \in {"suspended", "finished", "failed", "rejected"} :
               Settle(o, outcome) \/ SettleThrows(o, outcome)
    BY <2>4 DEF Settle, SettleThrows
  <2>5. QED BY <2>1, <2>2, <2>3, <2>4 DEF Operate
<1>3. \/ /\ UNCHANGED leaseVars
         /\ \/ pc[o] \in {"free", "loaded", "reload", "inserted", "claimed"}
               /\ pc'[o] \notin {"free"} \cup InHand
            \/ pc[o] \in InHand /\ pc'[o] \in InHand /\ op'[o] = op[o]
      \/ EndLease(o) /\ pc[o] \in InHand /\ pc'[o] \in Over /\ op'[o] = op[o]
      \/ HandOver(o)
  <2> USE DEF InHand, Over
  <2>1. CASE \/ \E n \in Node, r \in Run :
                  \/ CreateClaimed(o, n, r)
                  \/ \E kind \in {"resume", "cancel", "abort"} : LoadRun(o, n, r, kind)
             \/ ReloadActive(o) \/ HandOverFails(o)
    BY <2>1 DEF CreateClaimed, LoadRun, ReloadActive, HandOverFails
  <2>2. CASE ClaimSuspended(o) \/ TakeOver(o)
    BY <2>2 DEF ClaimSuspended, TakeOver, Missed
  <2>3. CASE MarkRunning(o)
    BY <2>3 DEF MarkRunning
  <2>4. CASE \E outcome \in {"suspended", "finished", "failed", "rejected"} :
               Settle(o, outcome) \/ SettleThrows(o, outcome)
    BY <2>4 DEF Settle, SettleThrows
  <2>5. QED BY <2>1, <2>2, <2>3, <2>4 DEF Operate
<1>4. LeasesPlaced'
  <2> SUFFICES ASSUME NEW n \in Node
               PROVE  /\ \A q \in lease'[n] : op'[q].node = n /\ pc'[q] \in InHand
                      /\ \A q \in renewal[n].claims :
                           op'[q].node = n /\ pc'[q] \in InHand \cup Over
    BY <1>1 DEF LeasesPlaced
  <2>0. /\ \A q \in lease[n] : q \in Op /\ op[q].node = n /\ pc[q] \in InHand
        /\ \A q \in renewal[n].claims :
             q \in Op /\ op[q].node = n /\ pc[q] \in InHand \cup Over
    BY DEF LeasesPlaced, Renewals
  <2>1. CASE /\ UNCHANGED leaseVars
             /\ pc[o] \in {"free", "loaded", "reload", "inserted", "claimed"}
    <3>1. o \notin lease[n] /\ o \notin renewal[n].claims
      BY <2>0, <2>1 DEF InHand, Over
    <3>2. QED BY <1>2, <2>0, <2>1, <3>1
  <2>2. CASE UNCHANGED leaseVars /\ pc'[o] \in InHand /\ op'[o] = op[o]
    BY <1>2, <2>0, <2>2
  <2>3. CASE EndLease(o) /\ pc'[o] \in Over /\ op'[o] = op[o]
    <3>1. lease'[n] \subseteq lease[n] /\ (o \in lease[n] => o \notin lease'[n])
      BY <2>0, <2>3
    <3>2. QED BY <1>2, <2>0, <2>3, <3>1
  <2>4. CASE HandOver(o)
    <3>1. /\ op' = op /\ pc'[o] \in InHand /\ pc[o] \notin InHand \cup Over
          /\ op[o].node \in Node
          /\ lease' = [lease EXCEPT ![op[o].node] = @ \cup {o}]
      BY <2>4 DEF HandOver, InHand, Over, OpsPlaced
    <3>2. /\ lease'[n] \subseteq lease[n] \cup {o}
          /\ o \in lease'[n] => op[o].node = n
      BY <2>0, <3>1
    <3>3. o \notin renewal[n].claims
      BY <2>0, <3>1
    <3>4. QED BY <1>2, <2>0, <3>1, <3>2, <3>3
  <2>5. QED BY <1>3, <2>1, <2>2, <2>3, <2>4
<1>5. ExpiriesOrdered'
  <2>1. ClaimExpiry \in Nat /\ ClaimExpiry' = ClaimExpiry
    BY <1>1, TtlAssumption DEF ClaimExpiry
  <2>2. \A r \in Run : row'[r].claimExpiresAt <= ClaimExpiry
    BY <2>1, OperationClaims DEF ExpiriesOrdered
  <2>3. ASSUME NEW n \in Node, NEW r \in Run, row'[r].claimId \in renewal[n].claims
        PROVE  row'[r].claimExpiresAt <= renewal[n].expiresAt
    <3>1. row'[r].claimId # None /\ row'[r].claimId \in Op
      BY <2>3, NoneAssumption DEF Renewals
    <3>2. pc[row'[r].claimId] \notin {"free", "loaded"}
      BY SMTT(20), <2>3 DEF LeasesPlaced, InHand, Over
    <3>3. /\ row'[r].claimId = row[r].claimId
          /\ row'[r].claimExpiresAt = row[r].claimExpiresAt
      BY <3>1, <3>2, OperationClaims
    <3>4. QED BY <2>3, <3>3 DEF ExpiriesOrdered
  <2>4. QED BY <1>1, <2>1, <2>2, <2>3 DEF ExpiriesOrdered
<1>6. SentNotHeld'
  <2>1. SUFFICES ASSUME NEW n \in Node, NEW e \in sweep[n].sent,
                        e.claimId \in lease'[n] \ late',
                        StillExpired(e.run, e.claimId, sweep[n].now)'
                 PROVE  FALSE
    BY <1>1 DEF SentNotHeld
  <2>2. /\ e \in sweep[n].found /\ e.claimId \in Op /\ e.run \in Run
        /\ pc[e.claimId] \notin {"free", "loaded"}
        /\ sweep[n].now <= clock /\ sweep[n].now \in Nat
    BY DEF SentNotHeld, IInv, SweepsFresh, NotYetClaimant, Sweeps, ExpiredClaims
  <2>3. /\ row[e.run].claimId = e.claimId
        /\ row[e.run].claimExpiresAt < sweep[n].now
        /\ StillExpired(e.run, e.claimId, sweep[n].now)
    BY <1>1, <2>1, <2>2, OperationClaims, NoneAssumption DEF StillExpired
  <2>4. CASE e.claimId \in lease[n]
    BY <1>3, <2>1, <2>3, <2>4 DEF SentNotHeld, LeasesPlaced, HandOver
  <2>5. CASE e.claimId \notin lease[n]
    <3>1. HandOver(o) /\ e.claimId = o
      <4>1. CASE UNCHANGED leaseVars \/ EndLease(o)
        BY <2>1, <2>5, <4>1
      <4>2. CASE HandOver(o)
        BY <2>1, <2>5, <4>2 DEF HandOver
      <4>3. QED BY <1>3, <4>1, <4>2
    <3>2. op[o].run = e.run
      BY <2>2, <2>3, <3>1 DEF IInv, ClaimsHeld
    <3>3. ~(row[e.run].claimExpiresAt < clock)
      BY <2>1, <3>1, <3>2 DEF HandOver
    <3>4. QED BY <2>2, <2>3, <3>3 DEF Rows
  <2>6. QED BY <2>4, <2>5
<1>7. QED BY <1>4, <1>5, <1>6

\* A recovery writes a row, or sends a write, and leaves leases alone; only a
\* renewal pushes the lapse of a claim back.
LEMMA RecoveryKeepsLInv ==
  ASSUME Typed, Typed', IInv, LInv, NEW n \in Node, Recovery(n)
  PROVE  LInv'
<1> USE DEF Typed, TypeOK, LInv
<1>1. /\ UNCHANGED <<leaseVars, clock>>
      /\ \A m \in Node \ {n} : sweep'[m] = sweep[m] /\ renewal'[m] = renewal[m]
      /\ \A o \in Op : \/ pc'[o] = pc[o] /\ op'[o] = op[o]
                       \/ pc[o] = "free"
  <2>1. CASE RenewNothing(n) \/ RenewStart(n) \/ RenewWrite(n) \/ RenewThrows(n)
    BY <2>1 DEF RenewNothing, RenewStart, RenewWrite, RenewThrows
  <2>2. CASE SweepFind(n) \/ SweepThrows(n)
    BY <2>2 DEF SweepFind, SweepThrows
  <2>3. CASE \E e \in sweep[n].found :
               \/ SkipHeld(n, e) \/ SendRecovery(n, e)
               \/ RecoverRun(n, e) \/ RecoverRunThrows(n, e)
    BY <2>3 DEF SkipHeld, SendRecovery, RecoverRun, RecoverRunThrows, SweepGoesOn
  <2>4. CASE \E o \in Op : GiveUp(n, o)
    <3>1. PICK p \in Op : GiveUp(n, p)
      BY <2>4
    <3>2. /\ UNCHANGED <<leaseVars, clock, renewal>> /\ pc[p] = "free"
          /\ \A m \in Node \ {n} : sweep'[m] = sweep[m]
      BY <3>1 DEF GiveUp
    <3>3. \A q \in Op \ {p} : pc'[q] = pc[q] /\ op'[q] = op[q]
      BY <3>1 DEF GiveUp
    <3>4. QED BY <3>2, <3>3
  <2>5. QED BY <2>1, <2>2, <2>3, <2>4 DEF Recovery
<1>2. \/ renewal' = renewal
      \/ renewal' = [renewal EXCEPT ![n] = NoRenewal]
      \/ RenewStart(n)
  BY DEF Recovery, RenewNothing, RenewWrite, RenewThrows, SweepFind,
         SweepThrows, SkipHeld, SendRecovery, RecoverRun, RecoverRunThrows,
         GiveUp
<1>3. LeasesPlaced'
  <2> SUFFICES ASSUME NEW m \in Node
               PROVE  /\ \A q \in lease[m] : op'[q].node = m /\ pc'[q] \in InHand
                      /\ \A q \in renewal'[m].claims :
                           op'[q].node = m /\ pc'[q] \in InHand \cup Over
    BY <1>1 DEF LeasesPlaced
  <2>1. /\ \A q \in lease[m] : q \in Op /\ op[q].node = m /\ pc[q] \in InHand
        /\ \A q \in renewal[m].claims :
             q \in Op /\ op[q].node = m /\ pc[q] \in InHand \cup Over
    BY DEF LeasesPlaced, Renewals
  <2>2. renewal'[m].claims \subseteq renewal[m].claims \cup lease[m]
    BY <1>1, <1>2 DEF NoRenewal, RenewStart
  <2>3. QED BY <1>1, <2>1, <2>2 DEF InHand, Over
<1>4. \A r \in Run :
        \/ row'[r].claimId = None /\ row'[r].claimExpiresAt = 0
        \/ row'[r].claimId = row[r].claimId
           /\ row'[r].claimExpiresAt = row[r].claimExpiresAt
           /\ row'[r].status = row[r].status
        \/ /\ RenewWrite(n)
           /\ row'[r].claimId = row[r].claimId
           /\ row'[r].status = row[r].status
           /\ row[r].claimId \in renewal[n].claims
           /\ row'[r].claimExpiresAt = renewal[n].expiresAt
  <2>1. CASE RenewWrite(n)
    BY <2>1 DEF RenewWrite, Rows
  <2>2. \A w \in Rows, e \in ExpiredClaims :
          RecoveredRow(w, e).claimId = None /\ RecoveredRow(w, e).claimExpiresAt = 0
    BY DEF RecoveredRow, Unclaimed, Rows
  <2>3. ASSUME NEW e \in sweep[n].found, RecoverRun(n, e) \/ RecoverRunThrows(n, e),
               NEW r \in Run
        PROVE  \/ row'[r] = row[r]
               \/ row'[r].claimId = None /\ row'[r].claimExpiresAt = 0
    <3>1. e \in ExpiredClaims /\ e.run \in Run
      BY DEF Sweeps, ExpiredClaims
    <3>2. row' = row \/ row' = [row EXCEPT ![e.run] = RecoveredRow(row[e.run], e)]
      BY <2>3 DEF RecoverRun, RecoverRunThrows
    <3>3. QED BY <2>2, <3>1, <3>2
  <2>4. CASE row' = row
    BY <2>4
  <2>5. QED
    BY <2>1, <2>3, <2>4
    DEF Recovery, RenewNothing, RenewStart, RenewThrows, SweepFind, SweepThrows,
        SkipHeld, SendRecovery, GiveUp
<1>5. ExpiriesOrdered'
  <2>1. ClaimExpiry \in Nat /\ ClaimExpiry' = ClaimExpiry
    BY <1>1, TtlAssumption DEF ClaimExpiry
  <2>2. \A r \in Run : row'[r].claimExpiresAt <= ClaimExpiry
    BY <1>4, <2>1 DEF ExpiriesOrdered
  <2>3. \A m \in Node : renewal'[m].expiresAt <= ClaimExpiry
    BY <1>1, <1>2, <2>1 DEF ExpiriesOrdered, NoRenewal, RenewStart
  <2>4. ASSUME NEW m \in Node, NEW r \in Run, row'[r].claimId \in renewal'[m].claims
        PROVE  row'[r].claimExpiresAt <= renewal'[m].expiresAt
    <3>1. row'[r].claimId = row[r].claimId /\ row[r].claimId \in Op
      BY <1>4, <2>4, NoneAssumption DEF Renewals
    <3>2. CASE RenewStart(n) /\ m = n
      BY <2>1, <2>2, <3>2 DEF RenewStart
    <3>3. CASE RenewWrite(n)
      <4>1. m # n
        BY <2>4, <3>3 DEF RenewWrite, NoRenewal
      <4>2. row[r].claimId \notin renewal[n].claims
        BY <1>1, <2>4, <3>1, <4>1 DEF LeasesPlaced
      <4>3. row'[r] = row[r]
        BY <3>3, <4>2 DEF RenewWrite
      <4>4. QED BY <1>1, <2>4, <4>1, <4>3 DEF ExpiriesOrdered
    <3>4. CASE ~RenewWrite(n) /\ ~(RenewStart(n) /\ m = n)
      <4>1. renewal'[m] = renewal[m]
        BY <1>1, <1>2, <2>4, <3>4 DEF NoRenewal
      <4>2. row'[r].claimExpiresAt = row[r].claimExpiresAt
        BY <1>4, <3>1, <3>4, NoneAssumption
      <4>3. QED BY <2>4, <3>1, <4>1, <4>2 DEF ExpiriesOrdered
    <3>5. QED BY <3>2, <3>3, <3>4
  <2>5. QED BY <2>1, <2>2, <2>3, <2>4 DEF ExpiriesOrdered
\* A write that keeps a claim does not make it lapse.
<1>6. ASSUME NEW e \in ExpiredClaims, NEW t \in Nat,
             StillExpired(e.run, e.claimId, t)'
      PROVE  StillExpired(e.run, e.claimId, t)
  <2>1. e.claimId \in Op /\ e.run \in Run
    BY DEF ExpiredClaims
  <2>2. /\ row'[e.run].claimId = e.claimId
        /\ row'[e.run].status \in ClaimedStatuses
        /\ row'[e.run].claimExpiresAt < t
    BY <1>6 DEF StillExpired
  <2>3. /\ row[e.run].claimId = e.claimId
        /\ row[e.run].status \in ClaimedStatuses
        /\ row[e.run].claimExpiresAt <= row'[e.run].claimExpiresAt
    BY <1>4, <2>1, <2>2, NoneAssumption DEF ExpiriesOrdered, Rows
  <2>4. row[e.run].claimExpiresAt \in Nat /\ row'[e.run].claimExpiresAt \in Nat
    BY <2>1 DEF Rows
  <2>5. QED BY <2>2, <2>3, <2>4 DEF StillExpired
<1>7. SentNotHeld'
  <2>1. \A m \in Node :
          \/ sweep'[m].sent = {}
          \/ /\ sweep'[m].sent = sweep[m].sent
             /\ sweep'[m].found = sweep[m].found
             /\ sweep'[m].now = sweep[m].now
          \/ /\ m = n /\ sweep'[m].found = sweep[m].found
             /\ \E e \in sweep[m].found :
                  sweep'[m].sent = {e} /\ e.claimId \notin lease[m]
    <3>1. \A s \in Sweeps, e \in ExpiredClaims, r \in Run \cup {None} :
            Without(s, e, r).sent = {}
      BY DEF Without, NoSweep, Sweeps
    <3>2. ASSUME NEW e \in sweep[n].found, SendRecovery(n, e), NEW m \in Node
          PROVE  \/ sweep'[m] = sweep[m]
                 \/ /\ m = n /\ sweep'[m].found = sweep[m].found
                    /\ sweep'[m].sent = {e} /\ e.claimId \notin lease[m]
      BY <3>2 DEF SendRecovery, HoldsClaim, Sweeps
    <3>3. ASSUME NEW e \in sweep[n].found, NEW r \in Run \cup {None},
                 SweepGoesOn(n, e, r), NEW m \in Node
          PROVE  sweep'[m] = sweep[m] \/ sweep'[m].sent = {}
      <4>1. e \in ExpiredClaims
        BY DEF Sweeps
      <4>2. QED BY <3>1, <3>3, <4>1 DEF SweepGoesOn
    <3>4. ASSUME NEW o \in Op, GiveUp(n, o), NEW m \in Node
          PROVE  \/ sweep'[m].sent = {}
                 \/ /\ sweep'[m].sent = sweep[m].sent
                    /\ sweep'[m].found = sweep[m].found
                    /\ sweep'[m].now = sweep[m].now
      <4>1. CASE sweep' = [sweep EXCEPT ![n] = NoSweep]
        BY <4>1 DEF NoSweep
      <4>2. CASE sweep' = [sweep EXCEPT ![n] = [@ EXCEPT !.giveUp = None]]
        BY <4>2 DEF Sweeps
      <4>3. QED BY <3>4, <4>1, <4>2 DEF GiveUp
    <3>5. ASSUME NEW e \in sweep[n].found, SkipHeld(n, e) \/ RecoverRun(n, e) \/ RecoverRunThrows(n, e)
          PROVE  \E r \in Run \cup {None} : SweepGoesOn(n, e, r)
      <4>1. e.run \in Run
        BY DEF Sweeps, ExpiredClaims
      <4>2. QED BY <3>5, <4>1 DEF SkipHeld, RecoverRun, RecoverRunThrows
    <3>6. CASE SweepFind(n)
      BY <3>6 DEF SweepFind
    <3>7. CASE RenewNothing(n) \/ RenewStart(n) \/ RenewWrite(n) \/ RenewThrows(n)
               \/ SweepThrows(n)
      BY <3>7 DEF RenewNothing, RenewStart, RenewWrite, RenewThrows, SweepThrows
    <3>8. CASE \E e \in sweep[n].found : SkipHeld(n, e) \/ RecoverRun(n, e) \/ RecoverRunThrows(n, e)
      BY <3>3, <3>5, <3>8
    <3>9. CASE \E e \in sweep[n].found : SendRecovery(n, e)
      BY <3>2, <3>9
    <3>10. CASE \E o \in Op : GiveUp(n, o)
      BY <3>4, <3>10
    <3>11. QED BY <3>6, <3>7, <3>8, <3>9, <3>10 DEF Recovery
  <2>2. SUFFICES ASSUME NEW m \in Node, NEW e \in sweep'[m].sent
                 PROVE  /\ e \in sweep'[m].found
                        /\ e.claimId \in lease[m] \ late =>
                             ~StillExpired(e.run, e.claimId, sweep[m].now)'
    BY <1>1 DEF SentNotHeld
  <2>3. CASE /\ sweep'[m].sent = sweep[m].sent
             /\ sweep'[m].found = sweep[m].found
             /\ sweep'[m].now = sweep[m].now
    <3>1. e \in ExpiredClaims /\ sweep[m].now \in Nat
      BY <2>3 DEF Sweeps
    <3>2. StillExpired(e.run, e.claimId, sweep[m].now)' =>
            StillExpired(e.run, e.claimId, sweep[m].now)
      BY <1>6, <2>3, <3>1 DEF StillExpired
    <3>3. QED BY <2>3, <3>2 DEF SentNotHeld
  <2>4. QED BY <2>1, <2>3
<1>8. QED BY <1>3, <1>5, <1>7

LEMMA LInvNext == Typed /\ Typed' /\ IInv /\ LInv /\ [Next]_vars => LInv'
<1> SUFFICES ASSUME Typed, Typed', IInv, LInv, [Next]_vars PROVE LInv'
  OBVIOUS
<1> USE DEF Typed, TypeOK, LInv
<1>1. ASSUME NEW o \in Op, Operate(o) PROVE LInv'
  BY <1>1, OperationKeepsLInv
<1>2. ASSUME NEW n \in Node, Recovery(n) PROVE LInv'
  BY <1>2, RecoveryKeepsLInv
<1>3. ClaimExpiry \in Nat
  BY TtlAssumption DEF ClaimExpiry
<1>4. ASSUME NEW n \in Node, Crash(n) PROVE LInv'
  <2>1. LeasesPlaced'
    BY <1>4 DEF Crash, LeasesPlaced, NoRenewal, InHand, Over, Renewals
  <2>2. ExpiriesOrdered'
    BY <1>3, <1>4 DEF Crash, ExpiriesOrdered, NoRenewal, ClaimExpiry
  <2>3. SentNotHeld'
    <3>1. /\ lease'[n] = {} /\ sweep'[n] = NoSweep /\ row' = row
          /\ \A m \in Node \ {n} :
               /\ lease'[m] = lease[m] /\ sweep'[m] = sweep[m]
               /\ lease[m] \ late' \subseteq lease[m] \ late
      BY <1>4 DEF Crash, LeasesPlaced
    <3>2. QED BY <3>1 DEF SentNotHeld, NoSweep, StillExpired
  <2>4. QED BY <2>1, <2>2, <2>3
<1>5. ASSUME NEW r \in Run, DeleteRun(r) PROVE LInv'
  <2>1. \A q \in Run : \/ row'[q] = row[q]
                       \/ /\ row'[q].claimId = None
                          /\ row'[q].claimExpiresAt = 0
                          /\ row'[q].status = "deleted"
    BY <1>5 DEF DeleteRun, AbsentRow
  <2>2. UNCHANGED <<opVars, recoveryVars, clock>>
    BY <1>5 DEF DeleteRun
  <2>3. \A m \in Node : None \notin renewal[m].claims
    BY NoneAssumption DEF Renewals
  <2>4. LeasesPlaced' /\ ExpiriesOrdered'
    BY <1>3, <2>1, <2>2, <2>3 DEF LeasesPlaced, ExpiriesOrdered, ClaimExpiry
  <2>5. SentNotHeld'
    BY SMTT(20), <2>1, <2>2 DEF SentNotHeld, StillExpired, ClaimedStatuses, Sweeps, ExpiredClaims
  <2>6. QED BY <2>4, <2>5
<1>6. CASE Tick
  <2>1. UNCHANGED <<row, opVars, recoveryVars>> /\ clock' = clock + 1
    BY <1>6 DEF Tick
  <2>2. ClaimExpiry <= ClaimExpiry' /\ ClaimExpiry' \in Nat
    BY <2>1, TtlAssumption DEF ClaimExpiry
  <2>3. LeasesPlaced' /\ SentNotHeld'
    BY <2>1 DEF LeasesPlaced, SentNotHeld, StillExpired
  <2>4. ExpiriesOrdered'
    BY <1>3, <2>1, <2>2 DEF ExpiriesOrdered, Rows, Renewals
  <2>5. QED BY <2>3, <2>4
<1>7. CASE UNCHANGED vars
  BY <1>7
  DEF vars, LeasesPlaced, ExpiriesOrdered, SentNotHeld, StillExpired, ClaimExpiry
<1>8. QED BY <1>1, <1>2, <1>4, <1>5, <1>6, <1>7 DEF Next

LEMMA LInvariance == Spec => [](Typed /\ IInv /\ LInv)
<1>1. Init => LInv
  BY BoundsAssumption, TtlAssumption, NoneAssumption
  DEF Init, LInv, LeasesPlaced, ExpiriesOrdered, SentNotHeld, AbsentRow,
      NoRenewal, NoSweep, ClaimExpiry
<1>2. LInv /\ (Typed /\ IInv) /\ (Typed /\ IInv)' /\ [Next]_vars => LInv'
  BY LInvNext
<1>3. QED BY Invariance, <1>1, <1>2, PTL DEF Spec

\* A process takes a run away from a pass of its own only if that pass was
\* handed its lease when its claim had already lapsed.
THEOREM ProcessesKeepTheirPasses == Spec => OwnPassesAreKept
<1>1. ASSUME Typed, IInv, LInv, [Next]_vars
      PROVE  [\A r \in Run, n \in Node :
               /\ IsRecovered(r) /\ sweep'[n] # sweep[n]
               /\ row[r].claimId \in lease[n]
               => row[r].claimId \in late]_vars
  <2>1. SUFFICES ASSUME NEW r \in Run, NEW n \in Node, IsRecovered(r),
                        sweep'[n] # sweep[n], row[r].claimId \in lease[n]
                 PROVE  row[r].claimId \in late
    OBVIOUS
  <2>2. PICK m \in Node : \E e \in sweep[m].found :
               /\ RecoverRun(m, e) \/ RecoverRunThrows(m, e)
               /\ e.run = r /\ StillExpired(r, e.claimId, sweep[m].now)
    BY <1>1, <2>1, RecoveredStep
  <2>3. m = n
    BY <1>1, <2>1, <2>2
    DEF RecoverRun, RecoverRunThrows, SweepGoesOn, Typed, TypeOK
  <2>4. PICK e \in sweep[n].sent :
          e.run = r /\ StillExpired(r, e.claimId, sweep[n].now)
    BY <2>2, <2>3 DEF RecoverRun, RecoverRunThrows
  <2>5. QED BY <1>1, <2>1, <2>4 DEF LInv, SentNotHeld, StillExpired
<1>2. QED BY <1>1, LInvariance, PTL DEF Spec, OwnPassesAreKept

----------------------------------------------------------------------------
\* The refinement of RunOwnership.

\* A run whose ownership a step leaves alone.
SameOwnership(r) ==
  /\ Phase(row'[r].status) = Phase(row[r].status)
  /\ row'[r].checkpoint = row[r].checkpoint
  /\ OwnerOf(row'[r], op') = OwnerOf(row[r], op)

LEMMA OwnershipUnchanged ==
  ASSUME \A r \in Run : SameOwnership(r)
  PROVE  UNCHANGED Ownership!vars
  BY DEF SameOwnership, Ownership!vars

\* A step that writes one run is a step of that run.
LEMMA OwnershipBecomes ==
  ASSUME NEW r \in Run, NEW ph, NEW s, NEW w,
         Phase(row'[r].status) = ph, row'[r].checkpoint = s,
         OwnerOf(row'[r], op') = w,
         \A q \in Run \ {r} : SameOwnership(q)
  PROVE  Ownership!Becomes(r, ph, s, w)
<1>1. [q \in Run |-> Phase(row'[q].status)]
        = [[q \in Run |-> Phase(row[q].status)] EXCEPT ![r] = ph]
  BY DEF SameOwnership
<1>2. [q \in Run |-> row'[q].checkpoint]
        = [[q \in Run |-> row[q].checkpoint] EXCEPT ![r] = s]
  BY DEF SameOwnership
<1>3. [q \in Run |-> OwnerOf(row'[q], op')]
        = [[q \in Run |-> OwnerOf(row[q], op)] EXCEPT ![r] = w]
  BY DEF SameOwnership
<1>4. QED BY <1>1, <1>2, <1>3 DEF Ownership!Becomes

LEMMA Phases ==
  /\ \A s \in ClaimedStatuses : Phase(s) = "active"
  /\ \A s \in EndedStatuses : Phase(s) = "ended"
  /\ Phase("suspended") = "suspended"
  /\ Phase("absent") = "absent"
  /\ Phase("deleted") = "gone"
  BY DEF Phase, ClaimedStatuses, EndedStatuses

\* Operations only read a run again while no row carries their token, so the
\* owner of a run whose row keeps its columns is the one it had.
LEMMA ColumnsKeepOwnership ==
  ASSUME Typed, IInv, NEW r \in Run, SameColumns(row[r], row'[r]),
         \A o \in Op : op'[o] = op[o] \/ \A q \in Run : row[q].claimId # o
  PROVE  SameOwnership(r)
<1>1. row[r].claimId \in Op \cup {None} /\ row'[r].claimId = row[r].claimId
  BY DEF Typed, TypeOK, Rows, SameColumns
<1>2. OwnerOf(row'[r], op') = OwnerOf(row[r], op)
  BY <1>1 DEF OwnerOf
<1>3. Phase(row'[r].status) = Phase(row[r].status)
  BY Phases DEF SameColumns
<1>4. QED BY <1>2, <1>3 DEF SameOwnership, SameColumns

LEMMA OwnershipInit == Init => Ownership!Init
<1> SUFFICES ASSUME Init PROVE Ownership!Init
  OBVIOUS
<1>1. \A r \in Run : /\ Phase(row[r].status) = "absent"
                     /\ row[r].checkpoint = 0
                     /\ OwnerOf(row[r], op) = Ownership!NoOwner
  BY Phases DEF Init, AbsentRow, OwnerOf, Ownership!NoOwner
<1>2. QED BY <1>1 DEF Ownership!Init

\* A step of recovery or of an operation that lets go of run r, which it or
\* the operation it recovers owns.
LEMMA LetGoRefines ==
  ASSUME Typed, Typed', IInv, DistinctTimestamps, NEW r \in Run,
         \A q \in Run \ {r} : SameOwnership(q),
         \/ Moved(row[r], row'[r])
         \/ GivenBack(row[r], row'[r]) /\ row[r].checkpoint # 0
  PROVE  Ownership!Next
<1> USE DEF Typed, TypeOK
<1>1. /\ row[r].status \in ClaimedStatuses /\ row'[r].claimId = None
      /\ row[r].claimId \in Op
  BY DEF Moved, GivenBack, IInv, RowsCoherent, ActiveIffClaimed, Rows
<1>2. OwnerOf(row'[r], op') = Ownership!NoOwner
  BY <1>1 DEF OwnerOf, Ownership!NoOwner
<1>3. Ownership!OwnsItsSuspension(r)
  <2>1. op[row[r].claimId].checkpoint = row[r].checkpoint
    BY <1>1 DEF IInv, ClaimsHeld
  <2>2. [op |-> row[r].claimId, suspension |-> row[r].checkpoint]
          \in OwnerOf(row[r], op)
    BY <1>1, <2>1, NoneAssumption DEF OwnerOf
  <2>3. QED BY <1>1, <2>2, Phases DEF Ownership!OwnsItsSuspension
<1>4. CASE row'[r].status \in EndedStatuses /\ row'[r].checkpoint = 0
  <2>1. Ownership!Becomes(r, "ended", 0, Ownership!NoOwner)
    BY <1>2, <1>4, Phases, OwnershipBecomes
  <2>2. QED BY <1>3, <2>1 DEF Ownership!End, Ownership!Next
<1>5. CASE row'[r].status = "suspended" /\ row'[r].checkpoint = row[r].checkpoint + 1
  <2>1. Ownership!Becomes(r, "suspended", row[r].checkpoint + 1, Ownership!NoOwner)
    BY <1>2, <1>5, Phases, OwnershipBecomes
  <2>2. QED BY <1>3, <2>1 DEF Ownership!Advance, Ownership!Next
<1>6. CASE /\ row'[r].status = "suspended"
           /\ row'[r].checkpoint = row[r].checkpoint /\ row[r].checkpoint # 0
  <2>1. Ownership!Becomes(r, "suspended", row[r].checkpoint, Ownership!NoOwner)
    BY <1>2, <1>6, Phases, OwnershipBecomes
  <2>2. QED BY <1>3, <1>6, <2>1 DEF Ownership!GiveBack, Ownership!Next
<1>7. QED BY <1>4, <1>5, <1>6 DEF Moved, GivenBack

LEMMA OperationRefines ==
  ASSUME Typed, Typed', IInv, DistinctTimestamps, NEW o \in Op, Operate(o)
  PROVE  Ownership!Next \/ UNCHANGED Ownership!vars
<1> DEFINE Refined == Ownership!Next \/ UNCHANGED Ownership!vars
<1> USE DEF Typed, TypeOK
\* Operations but those that own a run keep the rest as it is.
<1>1. ASSUME pc[o] \in NotYetClaimant
      PROVE  \A r \in Run : row[r].claimId # o
  BY <1>1 DEF IInv, ClaimsHeld, Claimants, InHand, NotYetClaimant
<1>2. ASSUME UNCHANGED op \/ pc[o] \in NotYetClaimant,
             \A p \in Op \ {o} : op'[p] = op[p],
             NEW r \in Run, SameColumns(row[r], row'[r])
      PROVE  SameOwnership(r)
  BY <1>1, <1>2, ColumnsKeepOwnership
<1>3. \A r \in Run : row'[r] = row[r] => SameColumns(row[r], row'[r])
  BY DEF SameColumns
<1>4. ASSUME UNCHANGED op \/ pc[o] \in NotYetClaimant,
             \A p \in Op \ {o} : op'[p] = op[p], UNCHANGED row
      PROVE  UNCHANGED Ownership!vars
  BY <1>2, <1>3, <1>4, OwnershipUnchanged
<1>5. ASSUME NEW n \in Node, NEW r \in Run, CreateClaimed(o, n, r)
      PROVE  Ownership!Next
  <2>1. \A q \in Run \ {r} : SameOwnership(q)
    BY <1>2, <1>3, <1>5 DEF CreateClaimed, NotYetClaimant
  <2>2. /\ row[r].status = "absent"
        /\ row'[r].status = "idle" /\ row'[r].checkpoint = 0
        /\ row'[r].claimId = o /\ op'[o].checkpoint = 0
    BY <1>5 DEF CreateClaimed, AbsentRow, Loaded, IInv, RowsCoherent
  <2>3. OwnerOf(row'[r], op') = {[op |-> o, suspension |-> 0]}
    BY <2>2, NoneAssumption DEF OwnerOf
  <2>4. Ownership!Becomes(r, "active", 0, {[op |-> o, suspension |-> 0]})
    BY <2>1, <2>2, <2>3, Phases, OwnershipBecomes DEF ClaimedStatuses
  <2>5. QED BY <2>2, <2>4, Phases DEF Ownership!Begin, Ownership!Next
<1>6. ASSUME ClaimSuspended(o), OnLoadedSuspension(op[o].run, o)
      PROVE  Ownership!Next
  <2>0. PICK r \in Run : r = op[o].run
    BY <1>6 DEF ClaimSuspended, OpsPlaced
  <2>1. /\ op' = op
        /\ \A q \in Run \ {r} : row'[q] = row[q]
        /\ row'[r] = ClaimedRow(row[r], o)
    BY <1>6, <2>0 DEF ClaimSuspended
  <2>2. /\ row[r].status = "suspended" /\ row'[r].status = "running"
        /\ row'[r].checkpoint = row[r].checkpoint /\ row'[r].claimId = o
        /\ row[r].suspendedAt = op[o].suspendedAt
    BY <1>6, <2>0, <2>1 DEF OnLoadedSuspension, ClaimedRow, Rows
  <2>3. row[r].checkpoint = op[o].checkpoint
    BY <1>6, <2>0, <2>1, <2>2
    DEF ClaimSuspended, IInv, Numbered, ActiveStatuses, OutOfPlay, EndedStatuses
  <2>4. PICK w : w = {[op |-> o, suspension |-> row[r].checkpoint]}
    OBVIOUS
  <2>5. OwnerOf(row'[r], op') = w
    BY <2>1, <2>2, <2>3, <2>4, NoneAssumption DEF OwnerOf
  <2>6. \A q \in Run \ {r} : SameOwnership(q)
    BY <1>2, <1>3, <2>1
  <2>7. Phase(row'[r].status) = "active"
    BY <2>2, Phases DEF ClaimedStatuses
  <2>8. Ownership!Becomes(r, "active", row[r].checkpoint, w)
    BY <2>2, <2>5, <2>6, <2>7, OwnershipBecomes
  <2>9. Ownership!Acquire(r, o)
    BY <2>2, <2>4, <2>8, Phases DEF Ownership!Acquire, Ownership!Becomes
  <2>10. QED BY <2>9 DEF Ownership!Next
\* A row that operation o lets go of.
<1>7. ASSUME NEW r \in Run, NEW x, WriteRow(r, x), UNCHANGED op,
             \/ Moved(row[r], x)
             \/ GivenBack(row[r], x) /\ row[r].checkpoint # 0
      PROVE  Ownership!Next
  <2>1. row'[r] = x /\ \A q \in Run \ {r} : row'[q] = row[q]
    BY <1>7
  <2>2. \A q \in Run \ {r} : SameOwnership(q)
    BY <1>2, <1>3, <1>7, <2>1
  <2>3. QED BY <1>7, <2>1, <2>2, LetGoRefines
<1>8. ASSUME TakeOver(o), row[op[o].run].status \in ClaimedStatuses
      PROVE  Ownership!Next
  <2>1. Moved(row[op[o].run], EndedRow(row[op[o].run], "failed"))
    BY <1>8, SettledColumns DEF TakeOver, OpsPlaced, SettledRows
  <2>2. QED BY <1>7, <1>8, <2>1 DEF TakeOver, OpsPlaced
<1>9. ASSUME MarkRunning(o), HeldUnder(op[o].run, o)
      PROVE  UNCHANGED Ownership!vars
  <2>1. \A r \in Run : SameColumns(row[r], row'[r])
    BY <1>9 DEF MarkRunning, HeldUnder, SameColumns, ClaimedStatuses, Rows
  <2>2. UNCHANGED op
    BY <1>9 DEF MarkRunning
  <2>3. QED BY <1>2, <2>1, <2>2, OwnershipUnchanged
<1>10. ASSUME NEW outcome \in {"suspended", "finished", "failed", "rejected"},
              outcome \in Outcomes(o), HeldUnder(op[o].run, o), pc[o] \in InHand,
              NEW x \in SettledRows(row[op[o].run], outcome),
              WriteRow(op[o].run, x), UNCHANGED op
       PROVE  Ownership!Next
  <2>1. op[o].run \in Run /\ row[op[o].run].claimId = o
        /\ row[op[o].run].status \in ClaimedStatuses
    BY <1>10 DEF OpsPlaced, HeldUnder, InHand
  <2>2. outcome = "rejected" => row[op[o].run].checkpoint # 0
    BY <1>10, <2>1 DEF Outcomes, IInv, ClaimsHeld
  <2>3. QED BY <1>7, <1>10, <2>1, <2>2, SettledColumns
<1>11. ASSUME NEW outcome \in {"suspended", "finished", "failed", "rejected"},
              Settle(o, outcome) \/ SettleThrows(o, outcome)
       PROVE  Refined
  <2>1. CASE UNCHANGED row
    BY <1>4, <1>11, <2>1 DEF Settle, SettleThrows
  <2>2. CASE HeldUnder(op[o].run, o)
             /\ \E x \in SettledRows(row[op[o].run], outcome) : WriteRow(op[o].run, x)
    <3>1. PICK x \in SettledRows(row[op[o].run], outcome) : WriteRow(op[o].run, x)
      BY <2>2
    <3>2. QED BY <1>10, <1>11, <2>2, <3>1 DEF Settle, SettleThrows
  <2>3. QED BY <1>11, <2>1, <2>2 DEF Settle, SettleThrows
<1>12. CASE UNCHANGED <<row, op>>
  BY <1>4, <1>12
<1>13. ASSUME NEW n \in Node, NEW r \in Run,
              NEW kind \in {"resume", "cancel", "abort"}, LoadRun(o, n, r, kind)
       PROVE  UNCHANGED Ownership!vars
  BY <1>4, <1>13 DEF LoadRun, NotYetClaimant
<1>14. CASE ReloadActive(o)
  BY <1>4, <1>14 DEF ReloadActive, NotYetClaimant
<1>15. CASE ClaimSuspended(o)
  BY <1>6, <1>12, <1>15 DEF ClaimSuspended
<1>16. CASE TakeOver(o)
  BY <1>8, <1>12, <1>16 DEF TakeOver
<1>17. CASE HandOver(o) \/ HandOverFails(o)
  BY <1>12, <1>17 DEF HandOver, HandOverFails
<1>18. CASE MarkRunning(o)
  BY <1>9, <1>12, <1>18 DEF MarkRunning
<1>19. QED
  BY <1>5, <1>11, <1>13, <1>14, <1>15, <1>16, <1>17, <1>18 DEF Operate

LEMMA RecoveryRefines ==
  ASSUME Typed, Typed', IInv, DistinctTimestamps, NEW n \in Node, Recovery(n)
  PROVE  Ownership!Next \/ UNCHANGED Ownership!vars
<1> USE DEF Typed, TypeOK
<1>1. ASSUME UNCHANGED op, NEW r \in Run, SameColumns(row[r], row'[r])
      PROVE  SameOwnership(r)
  BY <1>1, ColumnsKeepOwnership
<1>2. \A r \in Run : row'[r] = row[r] => SameColumns(row[r], row'[r])
  BY DEF SameColumns
<1>3. CASE UNCHANGED <<row, op>>
  BY <1>1, <1>2, <1>3, OwnershipUnchanged
<1>4. CASE RenewWrite(n)
  <2>1. \A r \in Run : SameColumns(row[r], row'[r])
    BY <1>4 DEF RenewWrite, SameColumns, Rows
  <2>2. QED BY <1>1, <1>4, <2>1, OwnershipUnchanged DEF RenewWrite
<1>5. ASSUME NEW o \in Op, GiveUp(n, o) PROVE UNCHANGED Ownership!vars
  <2>1. UNCHANGED row /\ \A p \in Op \ {o} : op'[p] = op[p]
    BY <1>5 DEF GiveUp
  <2>2. \A r \in Run : row[r].claimId # o
    BY <1>5 DEF GiveUp, IInv, ClaimsHeld, Claimants, InHand
  <2>3. QED
    BY <1>2, <2>1, <2>2, ColumnsKeepOwnership, OwnershipUnchanged
<1>6. ASSUME NEW e \in sweep[n].found,
             StillExpired(e.run, e.claimId, sweep[n].now),
             WriteRow(e.run, RecoveredRow(row[e.run], e)), UNCHANGED op
      PROVE  Ownership!Next
  <2>1. e \in ExpiredClaims /\ e.run \in Run
    BY DEF Sweeps, ExpiredClaims
  <2>2. /\ row[e.run].status \in ClaimedStatuses
        /\ e.hasCheckpoint <=> row[e.run].checkpoint # 0
    BY <1>6 DEF StillExpired, IInv, SweepsFresh
  <2>3. row'[e.run] = RecoveredRow(row[e.run], e)
        /\ \A q \in Run \ {e.run} : row'[q] = row[q]
    BY <1>6, <2>1
  <2>4. \/ Moved(row[e.run], row'[e.run])
        \/ GivenBack(row[e.run], row'[e.run]) /\ row[e.run].checkpoint # 0
    BY <2>1, <2>2, <2>3, RecoveredColumns
  <2>5. \A q \in Run \ {e.run} : SameOwnership(q)
    BY <1>1, <1>2, <1>6, <2>3
  <2>6. QED BY <2>1, <2>4, <2>5, LetGoRefines
<1>7. ASSUME NEW e \in sweep[n].found, RecoverRun(n, e) \/ RecoverRunThrows(n, e)
      PROVE  Ownership!Next \/ UNCHANGED Ownership!vars
  BY <1>3, <1>6, <1>7 DEF RecoverRun, RecoverRunThrows
<1>8. CASE \/ RenewNothing(n) \/ RenewStart(n) \/ RenewThrows(n)
           \/ SweepFind(n) \/ SweepThrows(n)
           \/ \E e \in sweep[n].found : SkipHeld(n, e) \/ SendRecovery(n, e)
  BY <1>3, <1>8
  DEF RenewNothing, RenewStart, RenewThrows, SweepFind, SweepThrows, SkipHeld,
      SendRecovery
<1>9. QED BY <1>4, <1>5, <1>7, <1>8 DEF Recovery

LEMMA StepRefines ==
  ASSUME Typed, Typed', IInv, DistinctTimestamps, [Next]_vars
  PROVE  Ownership!Next \/ UNCHANGED Ownership!vars
<1>1. ASSUME NEW o \in Op, Operate(o)
      PROVE  Ownership!Next \/ UNCHANGED Ownership!vars
  BY <1>1, OperationRefines
<1>2. ASSUME NEW n \in Node, Recovery(n)
      PROVE  Ownership!Next \/ UNCHANGED Ownership!vars
  BY <1>2, RecoveryRefines
<1>3. \A r \in Run : row'[r] = row[r] => SameColumns(row[r], row'[r])
  BY DEF SameColumns
<1>4. CASE UNCHANGED <<row, op>>
  BY <1>3, <1>4, ColumnsKeepOwnership, OwnershipUnchanged
<1>5. ASSUME NEW r \in Run, DeleteRun(r) PROVE Ownership!Next
  <2>1. /\ row[r].status # "absent" /\ row'[r].status = "deleted"
        /\ row'[r].checkpoint = 0 /\ row'[r].claimId = None
        /\ UNCHANGED op /\ \A q \in Run \ {r} : row'[q] = row[q]
    BY <1>5 DEF DeleteRun, AbsentRow, Typed, TypeOK
  <2>2. \A q \in Run \ {r} : SameOwnership(q)
    BY <1>3, <2>1, ColumnsKeepOwnership
  <2>3. OwnerOf(row'[r], op') = Ownership!NoOwner
    BY <2>1 DEF OwnerOf, Ownership!NoOwner
  <2>4. Ownership!Becomes(r, "gone", 0, Ownership!NoOwner)
    BY <2>1, <2>2, <2>3, Phases, OwnershipBecomes
  <2>5. Phase(row[r].status) # "absent"
    BY <2>1
    DEF Typed, TypeOK, Rows, Statuses, Phase, ActiveStatuses, ClaimedStatuses,
        EndedStatuses
  <2>6. QED BY <2>4, <2>5 DEF Ownership!Forget, Ownership!Next
<1>6. QED
  BY <1>1, <1>2, <1>4, <1>5 DEF Next, Crash, Tick, vars

\* The claim protocol implements exclusive ownership of a run, one suspension
\* at a time, whatever processes crash, lapse or race.
THEOREM Refinement ==
  ASSUME DistinctTimestamps
  PROVE  Spec => ImplementsOwnership
<1>1. Typed /\ Typed' /\ IInv /\ [Next]_vars => [Ownership!Next]_(Ownership!vars)
  BY StepRefines
<1>2. QED
  BY <1>1, OwnershipInit, Invariance, PTL DEF Spec, ImplementsOwnership, Ownership!Spec

=============================================================================
