------------------------ MODULE WorkflowRunClaimsMC ------------------------
(* Instances of WorkflowRunClaims for TLC: nodes, operations and runs are    *)
(* interchangeable.                                                          *)
EXTENDS WorkflowRunClaims, TLC

NodesAndOps == Permutations(Node) \cup Permutations(Op)
Symmetry == NodesAndOps \cup Permutations(Run)
=============================================================================
