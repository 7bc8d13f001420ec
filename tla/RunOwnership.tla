---------------------------- MODULE RunOwnership ----------------------------
(***************************************************************************)
(* What the claims on workflow runs promise, without tokens, leases,       *)
(* clocks or processes (packages/api/src/workflow/README.md, "The four     *)
(* rules").                                                                *)
(*                                                                         *)
(* A run alternates between suspensions, numbered 1, 2, 3...  At most one  *)
(* operation owns it at a time, and it owns one suspension of it (0: the   *)
(* run as it was created).  Only the owner of the suspension the run is on *)
(* may write what comes next; an owner that is gone, or that declines,     *)
(* leaves the run on the suspension it owned.                              *)
(***************************************************************************)
EXTENDS Naturals

CONSTANTS Run, Op

VARIABLES
  phase,       \* absent, active, suspended, ended or gone
  suspension,  \* the suspension the run is on, 0 when there is none
  owner        \* the operation that owns the run and what it owns, if any

vars == <<phase, suspension, owner>>

NoOwner == {}

Init ==
  /\ phase = [r \in Run |-> "absent"]
  /\ suspension = [r \in Run |-> 0]
  /\ owner = [r \in Run |-> NoOwner]

\* Run r moves to a phase, a suspension and an owner.
Becomes(r, ph, s, w) ==
  /\ phase' = [phase EXCEPT ![r] = ph]
  /\ suspension' = [suspension EXCEPT ![r] = s]
  /\ owner' = [owner EXCEPT ![r] = w]

\* An operation creates the run and owns its first pass.
Begin(r, o) ==
  /\ phase[r] = "absent"
  /\ Becomes(r, "active", 0, {[op |-> o, suspension |-> 0]})

\* An operation takes the suspension the run is on.
Acquire(r, o) ==
  /\ phase[r] = "suspended"
  /\ Becomes(r, "active", suspension[r],
             {[op |-> o, suspension |-> suspension[r]]})

OwnsItsSuspension(r) ==
  /\ phase[r] = "active"
  /\ \E w \in owner[r] : w.suspension = suspension[r]

\* The owner's work ends on the next suspension, or ends the run.
Advance(r) ==
  /\ OwnsItsSuspension(r)
  /\ Becomes(r, "suspended", suspension[r] + 1, NoOwner)

End(r) ==
  /\ OwnsItsSuspension(r)
  /\ Becomes(r, "ended", 0, NoOwner)

\* The owner declines or is gone: the run waits again, on the suspension it
\* was taken from.
GiveBack(r) ==
  /\ OwnsItsSuspension(r)
  /\ suspension[r] # 0
  /\ Becomes(r, "suspended", suspension[r], NoOwner)

\* The run is deleted, whatever it is doing.
Forget(r) ==
  /\ phase[r] # "absent"
  /\ Becomes(r, "gone", 0, NoOwner)

Next ==
  \E r \in Run :
    \/ \E o \in Op : Begin(r, o) \/ Acquire(r, o)
    \/ Advance(r) \/ End(r) \/ GiveBack(r) \/ Forget(r)

Spec == Init /\ [][Next]_vars
=============================================================================
