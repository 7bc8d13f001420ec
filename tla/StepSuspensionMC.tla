--------------------------- MODULE StepSuspensionMC ---------------------------
(***************************************************************************)
(* Bodies for TLC: a step of up to three calls, or two steps of up to two. *)
(* A call gives no key or any key, one that another gives too included.    *)
(***************************************************************************)
EXTENDS StepSuspension

BodiesOfAtMost(n) == UNION {[1 .. m -> UserKey \cup {None}] : m \in 0 .. n}

OneOrTwoSteps == {<<b>> : b \in BodiesOfAtMost(3)} \cup (BodiesOfAtMost(2) \X BodiesOfAtMost(2))
============================================================================
