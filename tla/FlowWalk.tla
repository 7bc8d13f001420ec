------------------------------ MODULE FlowWalk ------------------------------
(***************************************************************************)
(* A flow that nothing interrupts: its tasks ask for nothing, and each     *)
(* executor goes on until it returns.                                      *)
(***************************************************************************)
EXTENDS FlowExecutors

vars == <<flow, status, act, output, accumulator, snapshots, ran>>

Init ==
  /\ flow \in Flows
  /\ status = "idle"
  /\ act = Everywhere(Idle)
  /\ output = Everywhere(<<>>)
  /\ accumulator = Everywhere(None)
  /\ snapshots = <<>>
  /\ ran = <<>>

Start ==
  /\ status = "idle"
  /\ status' = "running"
  /\ act' = [act EXCEPT ![flow] = Called]
  /\ UNCHANGED <<flow, output, accumulator, snapshots, ran>>

Finish ==
  /\ act[flow] = Returned
  /\ status' = "finished"
  /\ act' = Everywhere(Idle)
  /\ UNCHANGED <<flow, output, accumulator, snapshots, ran>>

Next == Start \/ Finish \/ \E n \in Under(flow) : Step(n)

Spec == Init /\ [][Next]_vars
=============================================================================
