--------------------------- MODULE ParallelBlockMC ---------------------------
(***************************************************************************)
(* Blocks for TLC: any two branches of one or two tasks, and three branches*)
(* whose keys overlap.                                                     *)
(***************************************************************************)
EXTENDS ParallelBlock

TaskShapes == [key : Key, asks : BOOLEAN]
OneOrTwo == UNION {[1 .. n -> TaskShapes] : n \in 1 .. 2}

TwoBranches == [strategy : {"wait_all", "wait_any"}, tasks : OneOrTwo \X OneOrTwo]

ThreeBranches ==
  [strategy : {"wait_all", "wait_any"},
   tasks : {<<<<t>>, <<[key |-> k, asks |-> FALSE], [key |-> k, asks |-> TRUE]>>, <<u>>>> :
              t \in TaskShapes, u \in TaskShapes, k \in Key}]

SmallBlocks == TwoBranches \cup ThreeBranches
============================================================================
